---- MODULE Spec2Model ----
(***************************************************************************)
(* State-machine model of the cosmic monitor applet: the collectors        *)
(* WeatherMonitor (widget/weather.rs), NetworkMonitor (widget/network.rs), *)
(* NotificationMonitor (widget/notifications.rs), MediaMonitor             *)
(* (widget/media.rs), UtilizationMonitor (widget/utilization.rs) and       *)
(* TemperatureMonitor (widget/temperature.rs), the MonitorWidget of        *)
(* widget.rs and the main thread of widget_main.rs.                        *)
(* Each collector has its own specification (SpecWeather, SpecNetwork,     *)
(* SpecNotif, SpecMedia, SpecUtil, SpecTemp); SpecSolo runs the collectors *)
(* one at a time, SpecMain is the main thread calling them, SpecWidget     *)
(* and SpecSamples are the message handlers of widget.rs. SpecNotifParse   *)
(* is the listener alone on arbitrary lines, SpecNotifClock the            *)
(* notification monitor with a wall clock that can be set back,            *)
(* SpecTempRelist the temperature monitor over a sensor list that changes, *)
(* and SpecLocks follows the mutexes of the threads lock by lock.          *)
(***************************************************************************)
EXTENDS Integers, Sequences, FiniteSets, TLC

VARIABLES
    \* ---- WeatherMonitor (widget/weather.rs) ----
    now,                 \* monotonic clock (Instant), whole seconds
    weather_data,        \* Option<WeatherData>: <<>> is None, <<d>> is Some(d)
    weather_last_update, \* WeatherMonitor.last_update (Instant, seconds)
    api_key,             \* WeatherMonitor.api_key, a sequence of characters
    location,            \* WeatherMonitor.location, a sequence of characters
    prev_fetch_time,     \* history: Option, start time of the last outbound fetch
    fetch_gap,           \* history: Option, seconds between the last two fetch starts
    fetch_count,         \* history: number of outbound fetches so far
    last_request,        \* history: <<location, api_key>> put in the last request URL
    last_success,        \* history: record returned by the last successful fetch
    weather_op,          \* history: what the last WeatherMonitor step did
    \* ---- NetworkMonitor (widget/network.rs) ----
    net_now,             \* monotonic clock (Instant) seen by NetworkMonitor
    network_rx_bytes,    \* NetworkMonitor.network_rx_bytes (stored baseline)
    network_tx_bytes,    \* NetworkMonitor.network_tx_bytes (stored baseline)
    network_rx_rate,     \* NetworkMonitor.network_rx_rate, a quotient <<num, den>>
    network_tx_rate,     \* NetworkMonitor.network_tx_rate, a quotient <<num, den>>
    net_last_update,     \* NetworkMonitor.last_update
    net_read,            \* history: per-interface counters read by the last update
    net_prev_rx,         \* history: network_rx_bytes before the last update
    net_prev_tx,         \* history: network_tx_bytes before the last update
    net_elapsed,         \* history: `elapsed` of the last update
    net_updates,         \* history: number of update() calls so far
    \* ---- NotificationMonitor (widget/notifications.rs) ----
    wall_clock,          \* SystemTime::now() in whole seconds since the epoch
    notifications,       \* the shared Vec<Notification>, index 1 is the front
    max_notifications,   \* NotificationMonitor.max_notifications (max_count)
    notif_lock,          \* who holds the list's mutex: "free", "listener"
    listener_pc,         \* where the listener thread is
    current_app_name,    \* listener local: current_app_name
    current_summary,     \* listener local: current_summary
    current_body,        \* listener local: current_body
    string_field_index,  \* listener local: string_field_index
    in_notify_call,      \* listener local: in_notify_call
    notification,        \* listener local: Option, the record about to be inserted
    call_lines,          \* history: lines read since the last header line
    interrupted,         \* history: the line read last was a header line that cut
                         \* short a call of which fields had been captured
    call_emits,          \* history: insertions made since the last header line
    emit_log,            \* history: records inserted so far, newest first
    removed,             \* history: a clear/clear_app/remove_notification happened
    notif_op,            \* history: the last call made by the main thread
    op_record,           \* history: Option, the arguments of the clear, clear_app or
                         \* remove_notification just made and the list it found
    listener_errors,     \* history: errors the listener thread has reported
    \* ---- MediaMonitor (widget/media.rs) ----
    media_info,          \* the shared MediaInfo (Arc<Mutex<MediaInfo>>)
    cider_token,         \* the shared Option<String> API token
    media_lock,          \* who holds media_info's mutex: "free", "poller", or the
                         \* main thread as "reader" (get_media_info) or "caller"
    token_lock,          \* who holds cider_token's mutex: "free", "poller", "caller"
    poller_pc,           \* where the polling thread is: "request", "store", and,
                         \* followed lock by lock, also "token_cloned", "call",
                         \* "stored", "sleep"
    poll_token,          \* poller local: Option, the token cloned for this poll
    poll_result,         \* poller local: what try_cider_api returned (Option)
    \* The next four describe the poll in progress or the store just made:
    \* every later call on the monitor forgets them.
    poll_playing,        \* history: Option, what the is-playing request came back with
    poll_reply,          \* history: Option, what the now-playing request came back with
    prev_active,         \* history: is_active() of media_info before the store
    ctl_between,         \* history: a control call changed media_info between the
                         \* poll's request and its store
    ctl_pc,              \* where the control call of the main thread is ("idle":
                         \* in none)
    ctl_ok,              \* control local: whether the command dispatch succeeded
    seek_secs,           \* control local: position_seconds of seek(), a quotient
    seek_progress,       \* history: Option, the argument of seek_to_progress
    seek_duration,       \* history: Option, the duration seek_to_progress read
    seek_request,        \* history: Option, the position put in the seek request
    \* ---- UtilizationMonitor (widget/utilization.rs) ----
    cpu_usage,           \* UtilizationMonitor.cpu_usage, percent
    memory_usage,        \* UtilizationMonitor.memory_usage, a quotient <<num, den>>
    memory_total,        \* UtilizationMonitor.memory_total
    memory_used,         \* UtilizationMonitor.memory_used
    mem_divisor,         \* history: Option, the divisor of the last memory division
    gpu_usage,           \* the shared Arc<Mutex<f32>>, a quotient <<num, den>>
    gpu_lock,            \* who holds gpu_usage's mutex: "free", "gpu", "reader"
    gpu_vendor,          \* UtilizationMonitor.gpu_vendor
    gpu_env,             \* history: what detect_gpu_vendor found at construction
    gpu_pc,              \* where the GPU thread is: "not_spawned", "sleep", "store",
                         \* and, followed lock by lock, also "stored"
    gpu_fetched,         \* GPU thread local: Option, what the fetch returned
    gpu_last_value,      \* history: the last value a GPU fetch produced
    gpu_cycle_empty,     \* history: the last GPU fetch produced no value
    \* ---- TemperatureMonitor ----
    components,          \* TemperatureMonitor.components: label and temperature of each sensor
    cpu_temp,            \* TemperatureMonitor.cpu_temp
    gpu_temp,            \* TemperatureMonitor.gpu_temp
    temp_updated,        \* history: update() has run
    \* ---- MonitorWidget of widget.rs ----
    w_config,            \* MonitorWidget.config (the fields the handlers use)
    w_cpu_usage,         \* MonitorWidget.cpu_usage
    w_memory_usage,      \* MonitorWidget.memory_usage, a quotient
    w_memory_total,      \* MonitorWidget.memory_total
    w_memory_used,       \* MonitorWidget.memory_used
    w_mem_divisor,       \* history: Option, the divisor of the last memory division
    w_network_rx_bytes,  \* MonitorWidget.network_rx_bytes
    w_network_tx_bytes,  \* MonitorWidget.network_tx_bytes
    w_network_rx_rate,   \* MonitorWidget.network_rx_rate, a quotient
    w_network_tx_rate,   \* MonitorWidget.network_tx_rate, a quotient
    w_disk_read_rate,    \* MonitorWidget.disk_read_rate
    w_disk_write_rate,   \* MonitorWidget.disk_write_rate
    w_pending,           \* UpdateSystemStats messages on their way
    w_overflow_checks,   \* whether the build checks integer overflow
    w_panicked,          \* the handler panicked
    \* ---- MonitorWidget of widget_main.rs ----
    main_pc,             \* where the main thread is
    main_config,         \* MonitorWidget.config (the fields the main thread uses)
    main_last_update,    \* MonitorWidget.last_update (Instant, seconds)
    last_draw,           \* last_draw of main() (Instant, seconds)
    rendered             \* Option, the snapshot copied by the last draw()

weatherVars == <<now, weather_data, weather_last_update, api_key, location,
                 prev_fetch_time, fetch_gap, fetch_count, last_request, last_success, weather_op>>

netVars == <<net_now, network_rx_bytes, network_tx_bytes, network_rx_rate,
             network_tx_rate, net_last_update, net_read, net_prev_rx,
             net_prev_tx, net_elapsed, net_updates>>

notifVars == <<wall_clock, notifications, max_notifications, notif_lock,
               listener_pc, current_app_name, current_summary, current_body,
               string_field_index, in_notify_call, notification, call_lines,
               interrupted, call_emits, emit_log, removed, notif_op, op_record,
               listener_errors>>

mediaVars == <<media_info, cider_token, media_lock, token_lock, poller_pc, poll_token,
               poll_result, poll_playing, poll_reply,
               prev_active, ctl_between, ctl_pc, ctl_ok, seek_secs, seek_progress,
               seek_duration, seek_request>>

utilVars == <<cpu_usage, memory_usage, memory_total, memory_used, mem_divisor,
              gpu_usage, gpu_lock, gpu_vendor, gpu_env, gpu_pc, gpu_fetched,
              gpu_last_value, gpu_cycle_empty>>

widgetVars == <<w_config, w_cpu_usage, w_memory_usage, w_memory_total,
                w_memory_used, w_mem_divisor, w_network_rx_bytes,
                w_network_tx_bytes, w_network_rx_rate, w_network_tx_rate,
                w_disk_read_rate, w_disk_write_rate, w_pending,
                w_overflow_checks, w_panicked>>

tempVars == <<components, cpu_temp, gpu_temp, temp_updated>>

mainVars == <<main_pc, main_config, main_last_update, last_draw, rendered>>

\* What each collector does not own.
notWeather == <<netVars, notifVars, mediaVars, utilVars, widgetVars, tempVars, mainVars>>
notNetwork == <<weatherVars, notifVars, mediaVars, utilVars, widgetVars, tempVars, mainVars>>
notNotif == <<weatherVars, netVars, mediaVars, utilVars, widgetVars, tempVars, mainVars>>
notMedia == <<weatherVars, netVars, notifVars, utilVars, widgetVars, tempVars, mainVars>>
notUtil == <<weatherVars, netVars, notifVars, mediaVars, widgetVars, tempVars, mainVars>>
notWidget == <<weatherVars, netVars, notifVars, mediaVars, utilVars, tempVars, mainVars>>
notTemp == <<weatherVars, netVars, notifVars, mediaVars, utilVars, widgetVars, mainVars>>

----------------------------------------------------------------------------
(* Bounds of the model *)

\* The clock stops advancing here.
MaxTime == 1000
\* A blocking fetch takes 0..MaxFetchSecs seconds.
MaxFetchSecs == 1
\* Outbound fetches counted in one run.
MaxFetches == 3

\* NetworkMonitor: the clock stops here, and update() calls in one run.
MaxNetTime == 1
MaxNetUpdates == 3
\* The largest byte counter one interface can show.
MaxCounter == 1

\* TemperatureMonitor: most sensors the machine has.
MaxSensors == 3
\* Most sensors a refreshed list holds where the refresh may change the list.
MaxRelisted == 2

\* MonitorWidget of widget.rs: UpdateSystemStats messages on their way at
\* one time, and the value at which a byte counter wraps around (2^64 in the
\* program).
MaxPendingStats == 1
U64Modulus == 65536

\* NotificationMonitor: the wall clock stops here.
MaxWallClock == 1
\* Lines remembered after a header line (history only).
MaxCallLines == 4

(* Program constants *)

\* weather.rs:85  `self.last_update.elapsed().as_secs() < 600`
MinRefetchSecs == 600
\* weather.rs:68  `Instant::now() - Duration::from_secs(660)`
InitialBackdateSecs == 660

----------------------------------------------------------------------------
(* Generic helpers *)

None == <<>>
Some(x) == <<x>>

Q == "\""

\* str::trim_matches('"'): strip every leading and trailing quote character.
RECURSIVE TrimStartQuotes(_)
TrimStartQuotes(s) ==
    IF s # <<>> /\ Head(s) = Q THEN TrimStartQuotes(Tail(s)) ELSE s

RECURSIVE TrimEndQuotes(_)
TrimEndQuotes(s) ==
    IF s # <<>> /\ s[Len(s)] = Q THEN TrimEndQuotes(SubSeq(s, 1, Len(s) - 1)) ELSE s

TrimQuotes(s) == TrimEndQuotes(TrimStartQuotes(s))

----------------------------------------------------------------------------
(* WeatherMonitor *)

\* Values the configuration can hold for the API key and the location.
ApiKeys == { <<>>, <<Q, Q>>, <<"k">> }
Locations == { <<>>, <<"L">>, <<"M">> }

\* Steps by which the clock advances between calls.
TickSteps == {200, 399}

\* What the weather API can answer on success (main.temp, name).
WeatherResponses == { [temp |-> 10, name |-> "A"], [temp |-> 20, name |-> "B"] }

\* fetch_weather builds the record from the response (weather.rs:132-141).
WeatherDataOf(response) ==
    [temperature |-> response.temp, location |-> response.name]

\* weather.rs:80  missing key or location: update returns at once.
MissingCredentials == Len(api_key) = 0 \/ Len(location) = 0

\* weather.rs:85  the rate limit: less than 600 s since last_update.
IntervalNotElapsed == (now - weather_last_update) < MinRefetchSecs

\* Seconds between a fetch starting at t and the fetch before it.
GapTo(t) ==
    IF prev_fetch_time = None THEN None ELSE Some(t - prev_fetch_time[1])

\* weather.rs:66-76  WeatherMonitor::new(key, loc)
WeatherNew(key, loc) ==
    /\ now = 0
    /\ weather_data = None
    /\ weather_last_update = 0 - InitialBackdateSecs
    /\ api_key = key
    /\ location = loc
    /\ prev_fetch_time = None
    /\ fetch_gap = None
    /\ fetch_count = 0
    /\ last_request = None
    /\ last_success = None
    /\ weather_op = "new"

\* Time passes between two calls on the monitor.
Tick ==
    /\ UNCHANGED notWeather
    /\ \E d \in TickSteps :
          /\ now + d <= MaxTime
          /\ now' = now + d
    /\ weather_op' = "tick"
    /\ UNCHANGED <<weather_data, weather_last_update, api_key, location,
                   prev_fetch_time, fetch_gap, fetch_count, last_request, last_success>>

\* update() returns early: missing credentials or interval not elapsed.
WeatherSkipped ==
    /\ MissingCredentials \/ IntervalNotElapsed
    /\ weather_op' = "skip"
    /\ UNCHANGED <<now, weather_data, weather_last_update, api_key, location,
                   prev_fetch_time, fetch_gap, fetch_count, last_request, last_success>>

\* A call of update() that returns early, on a WeatherMonitor of its own.
WeatherUpdateSkip ==
    /\ UNCHANGED notWeather
    /\ WeatherSkipped

\* What update() stores when fetch_weather returns Ok(data) at time t.
StoreOnSuccess(data, t) ==
    /\ weather_data' = Some(data)
    /\ weather_last_update' = t

\* Mutant of StoreOnFailure: a failed fetch clears the record.
StoreOnFailureClears ==
    /\ weather_data' = None
    /\ weather_last_update' = weather_last_update

\* What update() stores when fetch_weather returns Err.
StoreOnFailure ==
    /\ weather_data' = weather_data
    /\ weather_last_update' = weather_last_update

\* weather.rs:80-87  update() passes both checks and goes on to fetch.
WeatherFetchDue ==
    /\ ~MissingCredentials
    /\ ~IntervalNotElapsed
    /\ fetch_count < MaxFetches

\* update() reaches fetch_weather, which blocks for d seconds and returns
\* Ok(data) or Err.
WeatherFetched ==
    /\ WeatherFetchDue
    /\ \E d \in 0..MaxFetchSecs :
          /\ now + d <= MaxTime
          /\ now' = now + d
          /\ prev_fetch_time' = Some(now)
          /\ fetch_gap' = GapTo(now)
          /\ fetch_count' = fetch_count + 1
          /\ last_request' = Some(<<TrimQuotes(location), TrimQuotes(api_key)>>)
          /\ \/ \E r \in WeatherResponses :
                   /\ StoreOnSuccess(WeatherDataOf(r), now + d)
                   /\ last_success' = Some(WeatherDataOf(r))
                   /\ weather_op' = "fetch_ok"
             \/ /\ StoreOnFailure
                /\ last_success' = last_success
                /\ weather_op' = "fetch_err"
    /\ UNCHANGED <<api_key, location>>

\* A call of update() that fetches, on a WeatherMonitor of its own.
WeatherUpdateFetch ==
    /\ UNCHANGED notWeather
    /\ WeatherFetched

\* weather.rs:144-146  set_api_key
SetApiKey ==
    /\ UNCHANGED notWeather
    /\ \E k \in ApiKeys : k # api_key /\ api_key' = k
    /\ weather_op' = "set_api_key"
    /\ UNCHANGED <<now, weather_data, weather_last_update, location,
                   prev_fetch_time, fetch_gap, fetch_count, last_request, last_success>>

\* Mutant of SetLocation: a new location makes the next update() fetch.
SetLocationRefetches ==
    /\ UNCHANGED notWeather
    /\ \E l \in Locations : l # location /\ location' = l
    /\ weather_op' = "set_location"
    /\ weather_last_update' = now - MinRefetchSecs
    /\ UNCHANGED <<now, weather_data, api_key,
                   prev_fetch_time, fetch_gap, fetch_count, last_request, last_success>>

\* weather.rs:148-150  set_location
SetLocation ==
    /\ UNCHANGED notWeather
    /\ \E l \in Locations : l # location /\ location' = l
    /\ weather_op' = "set_location"
    /\ UNCHANGED <<now, weather_data, weather_last_update, api_key,
                   prev_fetch_time, fetch_gap, fetch_count, last_request, last_success>>

NextWeather ==
    \/ Tick
    \/ WeatherUpdateSkip
    \/ WeatherUpdateFetch
    \/ SetApiKey
    \/ SetLocation


----------------------------------------------------------------------------
(* NetworkMonitor *)

RECURSIVE Gcd(_, _)
Gcd(a, b) == IF b = 0 THEN a ELSE Gcd(b, a % b)

Abs(n) == IF n < 0 THEN 0 - n ELSE n

\* The f64 quotient n / d as a reduced fraction <<num, den>>; division by
\* 0.0 gives NaN <<0, 0>> for 0/0 and an infinity <<1, 0>> or <<-1, 0>>.
FDiv(n, d) ==
    IF d = 0
    THEN (IF n = 0 THEN <<0, 0>> ELSE IF n > 0 THEN <<1, 0>> ELSE <<0 - 1, 0>>)
    ELSE LET g == Gcd(Abs(n), d) IN <<n \div g, d \div g>>

\* The f64 value 0.0.
ZeroRate == <<0, 1>>

\* The network interfaces sysinfo lists, in iteration order.
Interfaces == <<"eth0", "lo">>

\* What sysinfo can report: received() and transmitted() of each interface.
InterfaceReadings ==
    [1..Len(Interfaces) -> [received : 0..MaxCounter, transmitted : 0..MaxCounter]]

\* network.rs:122-127  sum over ALL interfaces.
RECURSIVE SumReceived(_, _)
SumReceived(nets, n) ==
    IF n = 0 THEN 0 ELSE SumReceived(nets, n - 1) + nets[n].received

RECURSIVE SumTransmitted(_, _)
SumTransmitted(nets, n) ==
    IF n = 0 THEN 0 ELSE SumTransmitted(nets, n - 1) + nets[n].transmitted

TotalRx(nets) == SumReceived(nets, Len(Interfaces))
TotalTx(nets) == SumTransmitted(nets, Len(Interfaces))

\* Mutant of RatesCalculated: the TX counter is not compared.
RatesCalculatedNoTxCheck(total_rx, total_tx) ==
    /\ network_rx_bytes > 0
    /\ total_rx >= network_rx_bytes

\* Mutant of RatesCalculated: the stored baseline is not required to be set.
RatesCalculatedNoBaseline(total_rx, total_tx) ==
    /\ total_rx >= network_rx_bytes
    /\ total_tx >= network_tx_bytes

\* network.rs:131  the condition under which rates are calculated.
RatesCalculated(total_rx, total_tx) ==
    /\ network_rx_bytes > 0
    /\ total_rx >= network_rx_bytes
    /\ total_tx >= network_tx_bytes

\* network.rs:133-138  the two rates published by update().
NewRxRate(total_rx, total_tx, elapsed) ==
    IF RatesCalculated(total_rx, total_tx)
    THEN FDiv(total_rx - network_rx_bytes, elapsed)
    ELSE ZeroRate

NewTxRate(total_rx, total_tx, elapsed) ==
    IF RatesCalculated(total_rx, total_tx)
    THEN FDiv(total_tx - network_tx_bytes, elapsed)
    ELSE ZeroRate

\* network.rs:85-94  NetworkMonitor::new
NetInit ==
    /\ net_now = 0
    /\ network_rx_bytes = 0
    /\ network_tx_bytes = 0
    /\ network_rx_rate = ZeroRate
    /\ network_tx_rate = ZeroRate
    /\ net_last_update = 0
    /\ net_read = [i \in 1..Len(Interfaces) |-> [received |-> 0, transmitted |-> 0]]
    /\ net_prev_rx = 0
    /\ net_prev_tx = 0
    /\ net_elapsed = 0
    /\ net_updates = 0

\* Time passes between two updates.
NetTick ==
    /\ UNCHANGED notNetwork
    /\ net_now < MaxNetTime
    /\ net_now' = net_now + 1
    /\ UNCHANGED <<network_rx_bytes, network_tx_bytes, network_rx_rate,
                   network_tx_rate, net_last_update, net_read, net_prev_rx,
                   net_prev_tx, net_elapsed, net_updates>>

\* network.rs:114-145  NetworkMonitor::update
NetSample(nets) ==
    /\ net_updates < MaxNetUpdates
    /\ LET elapsed  == net_now - net_last_update
           total_rx == TotalRx(nets)
           total_tx == TotalTx(nets)
       IN  /\ network_rx_rate' = NewRxRate(total_rx, total_tx, elapsed)
           /\ network_tx_rate' = NewTxRate(total_rx, total_tx, elapsed)
           /\ network_rx_bytes' = total_rx
           /\ network_tx_bytes' = total_tx
           /\ net_last_update' = net_now
           /\ net_read' = nets
           /\ net_elapsed' = elapsed
    /\ net_prev_rx' = network_rx_bytes
    /\ net_prev_tx' = network_tx_bytes
    /\ net_updates' = net_updates + 1
    /\ UNCHANGED net_now

\* A call of update() on a NetworkMonitor of its own.
NetUpdate ==
    /\ UNCHANGED notNetwork
    /\ \E nets \in InterfaceReadings : NetSample(nets)

NextNetwork ==
    \/ NetTick
    \/ NetUpdate

----------------------------------------------------------------------------
(* NotificationMonitor *)

\* A line is a sequence of tokens; these are the tokens the parser looks for.
MemberNotify == "Member=Notify"
StringKw == "STRING "
Space == " "

\* str::trim: strip leading and trailing whitespace.
RECURSIVE TrimStart(_)
TrimStart(s) == IF s # <<>> /\ Head(s) = Space THEN TrimStart(Tail(s)) ELSE s

RECURSIVE TrimEnd(_)
TrimEnd(s) ==
    IF s # <<>> /\ s[Len(s)] = Space THEN TrimEnd(SubSeq(s, 1, Len(s) - 1)) ELSE s

Trim(s) == TrimEnd(TrimStart(s))

\* str::contains("Member=Notify")
ContainsMemberNotify(s) == \E i \in 1..Len(s) : s[i] = MemberNotify

\* str::starts_with("STRING \"")
StartsWithStringQuote(s) == Len(s) >= 2 /\ s[1] = StringKw /\ s[2] = Q

\* str::find('"') and str::rfind('"'): position of the first and of the last
\* quote, 0 when there is none.
FindQuote(s) ==
    IF \E i \in 1..Len(s) : s[i] = Q
    THEN CHOOSE i \in 1..Len(s) : s[i] = Q /\ \A j \in 1..(i - 1) : s[j] # Q
    ELSE 0

RFindQuote(s) ==
    IF \E i \in 1..Len(s) : s[i] = Q
    THEN CHOOSE i \in 1..Len(s) : s[i] = Q /\ \A j \in (i + 1)..Len(s) : s[j] # Q
    ELSE 0

\* Mutant of ValueBetween: the slice keeps both quotes.
ValueBetweenInclusive(s, start, end) == SubSeq(s, start, end)

\* notifications.rs:214  &trimmed[start + 1..end]
ValueBetween(s, start, end) == SubSeq(s, start + 1, end - 1)

\* notifications.rs:237  the fallback label for an empty app_name.
SystemLabel == <<"System">>

\* Mutant of MakeNotification: no fallback label for an empty app name.
MakeNotificationNoFallback(app, summary, body, ts) ==
    [app_name |-> app, summary |-> summary, body |-> body, timestamp |-> ts]

\* notifications.rs:235-244  the record built when the body is captured.
MakeNotification(app, summary, body, ts) ==
    [app_name  |-> IF app = <<>> THEN SystemLabel ELSE app,
     summary   |-> summary,
     body      |-> body,
     timestamp |-> ts]

\* Mutant of InsertFront: the record is pushed at the back.
InsertBack(list, n) == Append(list, n)

\* notifications.rs:251  notifs.insert(0, notification)
InsertFront(list, n) == <<n>> \o list

\* Mutant of TruncateTo: the length test is off by one.
TruncateToLenient(list, max_count) ==
    IF Len(list) > max_count + 1 THEN SubSeq(list, 1, max_count) ELSE list

\* notifications.rs:253-255  truncate to max_count when longer.
TruncateTo(list, max_count) ==
    IF Len(list) > max_count THEN SubSeq(list, 1, max_count) ELSE list


\* Lines busctl can print.
HeaderLine == <<Space, "Type=method_call", Space, MemberNotify>>
StringLine(v) == <<Space, Space, StringKw, Q>> \o v \o <<Q, ";">>
UnclosedStringLine == <<Space, Space, StringKw, Q, "a">>
OtherLine == <<Space, Space, "UINT32 0", ";">>

FieldValues == { <<>>, <<"a">>, <<MemberNotify>> }

BusctlLines ==
    {HeaderLine, UnclosedStringLine, OtherLine} \cup {StringLine(v) : v \in FieldValues}

\* The lines of well-formed Notify calls alone.
NotifyCallLines == {HeaderLine, StringLine(<<>>), StringLine(<<"a">>)}

\* Values max_notifications is constructed with.
MaxNotificationsChoices == {0, 1, 2}

\* notifications.rs:118-136  NotificationMonitor::new(max)
NotifNew(max) ==
    /\ wall_clock = 0
    /\ notifications = <<>>
    /\ max_notifications = max
    /\ notif_lock = "free"
    /\ listener_pc = "spawn"
    /\ current_app_name = <<>>
    /\ current_summary = <<>>
    /\ current_body = <<>>
    /\ string_field_index = 0
    /\ in_notify_call = FALSE
    /\ notification = None
    /\ call_lines = None
    /\ interrupted = FALSE
    /\ call_emits = 0
    /\ emit_log = <<>>
    /\ removed = FALSE
    /\ notif_op = "new"
    /\ op_record = None
    /\ listener_errors = 0

\* notifications.rs:221-224  the STRING fields kept, by index: 0 is the
\* app name, 2 the summary, 3 the body; every other index is ignored.
AppNameIndex == 0
SummaryIndex == 2
BodyIndex == 3

\* notifications.rs:229  a notification is created only for a non-empty summary.
ShouldEmit(summary) == summary # <<>>

\* Mutant of OnHeader: the summary captured so far is kept.
OnHeaderKeepsSummary ==
    /\ current_app_name' = <<>>
    /\ current_summary' = current_summary
    /\ current_body' = <<>>
    /\ string_field_index' = 0
    /\ in_notify_call' = TRUE
    /\ notification' = None
    /\ listener_pc' = "read"

\* A header line was read (notifications.rs:201-207).
OnHeader ==
    /\ current_app_name' = <<>>
    /\ current_summary' = <<>>
    /\ current_body' = <<>>
    /\ string_field_index' = 0
    /\ in_notify_call' = TRUE
    /\ notification' = None
    /\ listener_pc' = "read"

\* A quoted STRING field with this value was read inside a Notify call
\* (notifications.rs:221-260).
OnStringField(value) ==
    /\ current_app_name' =
          IF string_field_index = AppNameIndex THEN value ELSE current_app_name
    /\ current_summary' =
          IF string_field_index = SummaryIndex THEN value ELSE current_summary
    /\ current_body' =
          IF string_field_index = BodyIndex THEN value ELSE current_body
    /\ in_notify_call' =
          IF string_field_index = BodyIndex THEN FALSE ELSE in_notify_call
    /\ IF string_field_index = BodyIndex /\ ShouldEmit(current_summary)
       THEN /\ notification' = Some(MakeNotification(current_app_name,
                                       current_summary, value, wall_clock))
            /\ listener_pc' = "lock"
       ELSE /\ notification' = None
            /\ listener_pc' = "read"
    /\ string_field_index' = string_field_index + 1

\* Any other line leaves the parser as it is.
OnIgnoredLine ==
    /\ notification' = None
    /\ listener_pc' = "read"
    /\ UNCHANGED <<current_app_name, current_summary, current_body,
                   string_field_index, in_notify_call>>

\* A line of the stream that contains Member=Notify starts a call.
IsHeaderLine(line) == \E i \in 1..Len(line) : line[i] = MemberNotify

\* History: the lines read since the last header line, while they fit.
CallLinesAfter(line) ==
    IF IsHeaderLine(line) THEN Some(<<>>)
    ELSE IF call_lines = None THEN None
    ELSE IF Len(call_lines[1]) >= MaxCallLines THEN None
    ELSE Some(Append(call_lines[1], line))

\* History: the line is a header line that ends a call which was still
\* being captured and had fields.
InterruptedAfter(line) ==
    IsHeaderLine(line) /\ in_notify_call /\ string_field_index > 0

\* Mutant of ProcessLine: STRING lines count outside a call as well.
ProcessLineWhileIdle(line) ==
    LET trimmed == Trim(line)
        start   == FindQuote(trimmed)
        end     == RFindQuote(trimmed)
    IN  IF ContainsMemberNotify(trimmed) THEN OnHeader
        ELSE IF StartsWithStringQuote(trimmed) /\ start < end
             THEN OnStringField(ValueBetween(trimmed, start, end))
             ELSE OnIgnoredLine

\* notifications.rs:196-265  one iteration of `for line in reader.lines()`
\* up to the point where the list's mutex is taken.
ProcessLine(line) ==
    LET trimmed == Trim(line)
        start   == FindQuote(trimmed)
        end     == RFindQuote(trimmed)
    IN  IF ContainsMemberNotify(trimmed) THEN OnHeader
        ELSE IF in_notify_call /\ StartsWithStringQuote(trimmed) /\ start < end
             THEN OnStringField(ValueBetween(trimmed, start, end))
             ELSE OnIgnoredLine

\* monitor_notifications returns: its locals are dropped (and the history
\* of the call being read with them).
ListenerLocalsDropped ==
    /\ current_app_name' = <<>>
    /\ current_summary' = <<>>
    /\ current_body' = <<>>
    /\ string_field_index' = 0
    /\ in_notify_call' = FALSE
    /\ notification' = None
    /\ call_lines' = None
    /\ interrupted' = FALSE
    /\ call_emits' = 0

\* notifications.rs:174-186  busctl is started and its stdout captured.
ListenerSpawn ==
    /\ UNCHANGED notNotif
    /\ listener_pc = "spawn"
    /\ listener_pc' = "read"
    /\ UNCHANGED <<wall_clock, notifications, max_notifications, notif_lock,
                   current_app_name, current_summary, current_body,
                   string_field_index, in_notify_call, notification,
                   call_lines, interrupted, call_emits, emit_log, removed, notif_op,
                   listener_errors>>
    /\ op_record' = None

\* Mutant of ListenerSpawnFail: the failure is reported and the thread goes
\* on to read.
ListenerSpawnFailGoesOn ==
    /\ UNCHANGED notNotif
    /\ listener_pc = "spawn"
    /\ listener_pc' = "read"
    /\ listener_errors' = listener_errors + 1
    /\ UNCHANGED <<wall_clock, notifications, max_notifications, notif_lock,
                   current_app_name, current_summary, current_body,
                   string_field_index, in_notify_call, notification,
                   call_lines, interrupted, call_emits, emit_log, removed, notif_op>>
    /\ op_record' = None

\* notifications.rs:183, 126-130  `.spawn()?` fails: monitor_notifications
\* returns Err, the thread's closure logs it and the thread ends.
ListenerSpawnFail ==
    /\ UNCHANGED notNotif
    /\ listener_pc = "spawn"
    /\ listener_pc' = "spawn_failed"
    /\ listener_errors' = listener_errors + 1
    /\ UNCHANGED <<wall_clock, notifications, max_notifications, notif_lock,
                   current_app_name, current_summary, current_body,
                   string_field_index, in_notify_call, notification,
                   call_lines, interrupted, call_emits, emit_log, removed, notif_op>>
    /\ op_record' = None

\* The listener reads one line of the stream and parses it.
ReadLineFrom(lines) ==
    /\ listener_pc = "read"
    /\ \E line \in lines :
          /\ ProcessLine(line)
          /\ call_lines' = CallLinesAfter(line)
          /\ interrupted' = InterruptedAfter(line)
          /\ call_emits' = IF IsHeaderLine(line) THEN 0 ELSE call_emits
    /\ UNCHANGED <<wall_clock, notifications, max_notifications, notif_lock,
                   emit_log, removed, notif_op,
                   listener_errors>>
    /\ op_record' = None

\* Any line busctl can print is read.
ListenerReadLine ==
    /\ UNCHANGED notNotif
    /\ ReadLineFrom(BusctlLines)

\* A line of a well-formed Notify call is read.
ListenerReadCallLine ==
    /\ UNCHANGED notNotif
    /\ ReadLineFrom(NotifyCallLines)

\* notifications.rs:197  `let line = line?;` on a line that cannot be read
\* (an I/O error, bytes that are not UTF-8): monitor_notifications returns Err.
ListenerReadError ==
    /\ UNCHANGED notNotif
    /\ listener_pc = "read"
    /\ listener_pc' = "read_failed"
    /\ listener_errors' = listener_errors + 1
    /\ ListenerLocalsDropped
    /\ UNCHANGED <<wall_clock, notifications, max_notifications, notif_lock,
                   emit_log, removed, notif_op>>
    /\ op_record' = None

\* notifications.rs:196,267  busctl's output ends: the loop ends, Ok(()).
ListenerEndOfStream ==
    /\ UNCHANGED notNotif
    /\ listener_pc = "read"
    /\ listener_pc' = "finished"
    /\ ListenerLocalsDropped
    /\ UNCHANGED <<wall_clock, notifications, max_notifications, notif_lock,
                   emit_log, removed, notif_op,
                   listener_errors>>
    /\ op_record' = None

\* History: the records inserted so far, newest first, while nothing was
\* removed; one more than the cap is remembered.
EmitLogAfter(n) ==
    IF removed THEN <<>>
    ELSE LET all == <<n>> \o emit_log
         IN  IF Len(all) > max_notifications + 1
             THEN SubSeq(all, 1, max_notifications + 1)
             ELSE all

\* notifications.rs:250-251  lock the list and insert at the front.
ListenerLockInsert ==
    /\ UNCHANGED notNotif
    /\ listener_pc = "lock"
    /\ notif_lock = "free"
    /\ notif_lock' = "listener"
    /\ notifications' = InsertFront(notifications, notification[1])
    /\ call_emits' = call_emits + 1
    /\ emit_log' = EmitLogAfter(notification[1])
    /\ listener_pc' = "truncate"
    /\ UNCHANGED <<wall_clock, max_notifications, current_app_name,
                   current_summary, current_body, string_field_index,
                   in_notify_call, notification, call_lines, interrupted, removed,
                   notif_op,
                   listener_errors>>
    /\ op_record' = None

\* notifications.rs:253-256  truncate, then the guard is dropped.
ListenerTruncateUnlock ==
    /\ UNCHANGED notNotif
    /\ listener_pc = "truncate"
    /\ notif_lock = "listener"
    /\ notifications' = TruncateTo(notifications, max_notifications)
    /\ notif_lock' = "free"
    /\ listener_pc' = "read"
    /\ UNCHANGED <<wall_clock, max_notifications, current_app_name,
                   current_summary, current_body, string_field_index,
                   in_notify_call, notification, call_lines, interrupted,
                   call_emits,
                   emit_log, removed, notif_op,
                   listener_errors>>
    /\ op_record' = None

\* The wall clock advances.
NotifTick ==
    /\ UNCHANGED notNotif
    /\ wall_clock < MaxWallClock
    /\ wall_clock' = wall_clock + 1
    /\ UNCHANGED <<notifications, max_notifications, notif_lock, listener_pc,
                   current_app_name, current_summary, current_body,
                   string_field_index, in_notify_call, notification,
                   call_lines, interrupted, call_emits, emit_log, removed, notif_op,
                   listener_errors>>
    /\ op_record' = None

\* The wall clock is set back (a clock correction, a manual change):
\* SystemTime::now() of notifications.rs:230 is not monotonic.
NotifClockSetBack ==
    /\ UNCHANGED notNotif
    /\ wall_clock > 0
    /\ wall_clock' = wall_clock - 1
    /\ UNCHANGED <<notifications, max_notifications, notif_lock, listener_pc,
                   current_app_name, current_summary, current_body,
                   string_field_index, in_notify_call, notification,
                   call_lines, interrupted, call_emits, emit_log, removed, notif_op,
                   listener_errors>>
    /\ op_record' = None

listenerLocals == <<listener_pc, current_app_name, current_summary,
                    current_body, string_field_index, in_notify_call,
                    notification, call_lines, interrupted, call_emits,
                    listener_errors>>

\* notifications.rs:274-276  get_notifications: lock, clone, unlock.
GetNotifications ==
    /\ UNCHANGED notNotif
    /\ notif_lock = "free"
    /\ notif_op' = "get_notifications"
    /\ UNCHANGED <<wall_clock, notifications, max_notifications, notif_lock,
                   emit_log, removed, listenerLocals>>
    /\ op_record' = None

\* notifications.rs:282-286  clear
Clear ==
    /\ UNCHANGED notNotif
    /\ notif_lock = "free"
    /\ notifications' = <<>>
    /\ notif_op' = "clear"
    /\ op_record' = Some([before |-> notifications])
    /\ removed' = TRUE
    /\ emit_log' = <<>>
    /\ UNCHANGED <<wall_clock, max_notifications, notif_lock, listenerLocals>>

\* Application names a caller can pass.
AppNames == { <<"a">>, SystemLabel, <<>> }

\* notifications.rs:293-297  clear_app(app_name)
ClearApp ==
    /\ UNCHANGED notNotif
    /\ notif_lock = "free"
    /\ \E app \in AppNames :
          LET Keep(n) == n.app_name # app
          IN  /\ notifications' = SelectSeq(notifications, Keep)
              /\ op_record' = Some([before |-> notifications, app |-> app])
    /\ notif_op' = "clear_app"
    /\ removed' = TRUE
    /\ emit_log' = <<>>
    /\ UNCHANGED <<wall_clock, max_notifications, notif_lock, listenerLocals>>

\* Mutant of RemoveNotification: only the first notification with the
\* pair is removed.
RemoveNotificationFirstOnly ==
    /\ UNCHANGED notNotif
    /\ notif_lock = "free"
    /\ \E app \in AppNames, ts \in 0..MaxWallClock :
          LET Hit(i) == notifications[i].app_name = app /\ notifications[i].timestamp = ts
              hits == {i \in 1..Len(notifications) : Hit(i)}
              first == IF hits = {} THEN 0
                       ELSE CHOOSE i \in hits : \A j \in hits : i <= j
          IN  /\ notifications' =
                    [k \in 1..(Len(notifications) - (IF first = 0 THEN 0 ELSE 1)) |->
                        IF first = 0 \/ k < first THEN notifications[k]
                        ELSE notifications[k + 1]]
              /\ op_record' = Some([before |-> notifications, app |-> app, ts |-> ts])
    /\ notif_op' = "remove_notification"
    /\ removed' = TRUE
    /\ emit_log' = <<>>
    /\ UNCHANGED <<wall_clock, max_notifications, notif_lock, listenerLocals>>

\* notifications.rs:307-311  remove_notification(app_name, timestamp)
RemoveNotification ==
    /\ UNCHANGED notNotif
    /\ notif_lock = "free"
    /\ \E app \in AppNames, ts \in 0..MaxWallClock :
          LET Keep(n) == ~(n.app_name = app /\ n.timestamp = ts)
          IN  /\ notifications' = SelectSeq(notifications, Keep)
              /\ op_record' = Some([before |-> notifications, app |-> app, ts |-> ts])
    /\ notif_op' = "remove_notification"
    /\ removed' = TRUE
    /\ emit_log' = <<>>
    /\ UNCHANGED <<wall_clock, max_notifications, notif_lock, listenerLocals>>

\* The listener parsing the whole stream, nobody else touching the list.
NextNotifParse ==
    \/ ListenerSpawn
    \/ ListenerSpawnFail
    \/ ListenerReadLine
    \/ ListenerReadError
    \/ ListenerEndOfStream
    \/ ListenerLockInsert
    \/ ListenerTruncateUnlock

\* The listener capturing Notify calls while the main thread uses the list.
NextNotif ==
    \/ ListenerSpawn
    \/ ListenerSpawnFail
    \/ ListenerReadCallLine
    \/ ListenerReadError
    \/ ListenerEndOfStream
    \/ ListenerLockInsert
    \/ ListenerTruncateUnlock
    \/ NotifTick
    \/ GetNotifications
    \/ Clear
    \/ ClearApp
    \/ RemoveNotification

\* The same, with a wall clock that can also be set back.
NextNotifClock ==
    \/ ListenerSpawn
    \/ ListenerSpawnFail
    \/ ListenerReadCallLine
    \/ ListenerReadError
    \/ ListenerEndOfStream
    \/ ListenerLockInsert
    \/ ListenerTruncateUnlock
    \/ NotifTick
    \/ NotifClockSetBack
    \/ GetNotifications
    \/ Clear
    \/ ClearApp
    \/ RemoveNotification

----------------------------------------------------------------------------
(* MediaMonitor *)

\* media.rs:55-59, 69  MediaInfo::default()
MediaInfoDefault ==
    [player_name |-> <<>>, title |-> <<>>, artist |-> <<>>, album |-> <<>>,
     art_url |-> None, status |-> "Stopped", position |-> 0, duration |-> 0,
     can_play |-> FALSE, can_pause |-> FALSE, can_go_next |-> FALSE,
     can_go_previous |-> FALSE, can_seek |-> FALSE]

\* media.rs:104-106  MediaInfo::is_active
IsActive(info) == info.player_name # <<>> /\ info.title # <<>>

\* Pieces of text the parser searches for; a response body is a sequence of
\* such pieces, of single characters and of number texts.
StatusOkText == "\"status\":\"ok\""
ErrorText == "\"error\""
NameKey == "\"name\":\""
ArtistKey == "\"artistName\":\""
AlbumKey == "\"albumName\":\""
UrlKey == "\"url\":\""
DurationKey == "\"durationInMillis\":"
PlaybackTimeKey == "\"currentPlaybackTime\":"
IsPlayingTrueText == "\"is_playing\":true"
IsPlayingFalseText == "\"is_playing\":false"

\* str::contains(text)
JsonContains(json, text) == \E i \in 1..Len(json) : json[i] = text

\* str::find: index of the first element that is one of `texts`, 0 when absent.
RECURSIVE FindFrom(_, _, _)
FindFrom(json, texts, i) ==
    IF i > Len(json) THEN 0
    ELSE IF json[i] \in texts THEN i
    ELSE FindFrom(json, texts, i + 1)

\* Mutant of ExtractJsonString: an absent key yields the text "Unknown".
ExtractJsonStringOrUnknown(json, key) ==
    LET k == FindFrom(json, {key}, 1) IN
    IF k = 0 THEN Some(<<"Unknown">>)
    ELSE LET rest == SubSeq(json, k + 1, Len(json))
             end == FindFrom(rest, {Q}, 1)
         IN  IF end = 0 THEN Some(<<"Unknown">>) ELSE Some(SubSeq(rest, 1, end - 1))

\* media.rs:354-359  extract_json_string: the text after the first `key` up
\* to the next quote; None when the key or the closing quote is missing.
ExtractJsonString(json, key) ==
    LET k == FindFrom(json, {key}, 1) IN
    IF k = 0 THEN None
    ELSE LET rest == SubSeq(json, k + 1, Len(json))
             end == FindFrom(rest, {Q}, 1)
         IN  IF end = 0 THEN None ELSE Some(SubSeq(rest, 1, end - 1))

\* media.rs:364-369  extract_json_number: the trimmed text after the first
\* `key` up to the next ',', '}' or ']'.
ExtractJsonNumber(json, key) ==
    LET k == FindFrom(json, {key}, 1) IN
    IF k = 0 THEN None
    ELSE LET rest == SubSeq(json, k + 1, Len(json))
             end == FindFrom(rest, {",", "}", "]"}, 1)
         IN  IF end = 0 THEN None ELSE Some(Trim(SubSeq(rest, 1, end - 1)))

\* Number texts and their values; any other text does not parse.
NumberTexts == [t \in {"200000", "1500", "50"} |->
                   IF t = "200000" THEN 200000 ELSE IF t = "1500" THEN 1500 ELSE 50]

\* str::parse::<u64> and str::parse::<f64> of these texts.
ParseNumber(text) ==
    IF Len(text) = 1 /\ text[1] \in DOMAIN NumberTexts
    THEN Some(NumberTexts[text[1]])
    ELSE None

\* f64 product of two quotients; NaN when either is NaN.
FMul(a, b) ==
    IF a[2] = 0 \/ b[2] = 0 THEN <<0, 0>> ELSE FDiv(a[1] * b[1], a[2] * b[2])

\* `x as u64` of a finite or NaN f64: NaN and negatives give 0, otherwise
\* the value truncated towards zero.
AsU64(x) ==
    IF x[2] = 0 THEN 0
    ELSE IF x[1] < 0 THEN 0
    ELSE x[1] \div x[2]

\* media.rs:285-349  parse_cider_response
ParseCiderResponse(json, is_playing) ==
    IF ~JsonContains(json, StatusOkText) THEN None
    ELSE
      LET name == ExtractJsonString(json, NameKey)
          artist == ExtractJsonString(json, ArtistKey)
          album == ExtractJsonString(json, AlbumKey)
          artwork == ExtractJsonString(json, UrlKey)
          duration_str == ExtractJsonNumber(json, DurationKey)
          pos_str == ExtractJsonNumber(json, PlaybackTimeKey)
          duration == IF duration_str = None THEN None ELSE ParseNumber(duration_str[1])
          pos == IF pos_str = None THEN None ELSE ParseNumber(pos_str[1])
          info == [MediaInfoDefault EXCEPT
                     !.player_name = <<"Cider">>,
                     !.can_play = TRUE, !.can_pause = TRUE, !.can_go_next = TRUE,
                     !.can_go_previous = TRUE, !.can_seek = TRUE,
                     !.status = IF is_playing THEN "Playing" ELSE "Paused",
                     !.title = IF name = None THEN <<>> ELSE name[1],
                     !.artist = IF artist = None THEN <<>> ELSE artist[1],
                     !.album = IF album = None THEN <<>> ELSE album[1],
                     !.art_url = artwork,
                     !.duration = IF duration = None THEN 0 ELSE duration[1],
                     !.position = IF pos = None THEN 0
                                  ELSE AsU64(FMul(<<pos[1], 1>>, <<1000, 1>>))]
      IN  IF info.title = <<>> THEN None ELSE Some(info)

\* Bodies the now-playing endpoint can answer with.
NowPlayingBodies ==
    { <<"{", StatusOkText, ",", NameKey, "T", Q, ",", ArtistKey, "A", Q, ",",
        DurationKey, "200000", ",", PlaybackTimeKey, "50", "}">>,
      <<"{", StatusOkText, ",", NameKey, "T", Q, ",", DurationKey, Space, "1500", "}">>,
      <<"{", StatusOkText, ",", NameKey, "T", Q, ",", DurationKey, "x", ",",
        PlaybackTimeKey, "50", "}">>,
      <<"{", StatusOkText, ",", NameKey, Q, ",", ArtistKey, "A", Q, ",",
        AlbumKey, "B", Q, ",", DurationKey, "200000", ",", PlaybackTimeKey, "50", "}">>,
      <<"{", StatusOkText, ",", ArtistKey, "A", Q, ",", AlbumKey, "B", Q, ",",
        DurationKey, "200000", ",", PlaybackTimeKey, "50", "}">>,
      <<"{", NameKey, "T", Q, ",", DurationKey, "200000", "}">>,
      <<"{", ErrorText, ":", Q, "n", Q, "}">> }

\* What running curl for now-playing can come back with: it could not be
\* run, it exited with a non-success status, or it printed a body.
NowPlayingReplies ==
    { [kind |-> "spawn_failed", body |-> <<>>], [kind |-> "exit_failure", body |-> <<>>] }
    \cup { [kind |-> "body", body |-> b] : b \in NowPlayingBodies }

\* What running curl for is-playing can come back with.
IsPlayingReplies ==
    { [kind |-> "spawn_failed", body |-> <<>>],
      [kind |-> "exit_failure", body |-> <<>>],
      [kind |-> "body", body |-> <<"{", IsPlayingTrueText, "}">>],
      [kind |-> "body", body |-> <<"{", IsPlayingFalseText, "}">>] }

\* Mutant of CheckIsPlaying: a query that fails counts as not playing.
CheckIsPlayingPessimistic(reply) ==
    IF reply.kind = "body" THEN JsonContains(reply.body, IsPlayingTrueText) ELSE FALSE

\* media.rs:257-278  check_is_playing: true unless the answer says otherwise.
CheckIsPlaying(reply) ==
    IF reply.kind = "body" THEN JsonContains(reply.body, IsPlayingTrueText) ELSE TRUE

\* media.rs:237-249  check_is_playing is called only when the now-playing
\* request ran, succeeded and its body holds no error.
IsPlayingAsked(reply) ==
    reply.kind = "body" /\ ~JsonContains(reply.body, ErrorText)

\* media.rs:222-254  try_cider_api
TryCiderApi(reply, playing_reply) ==
    IF reply.kind # "body" THEN None
    ELSE IF JsonContains(reply.body, ErrorText) THEN None
    ELSE ParseCiderResponse(reply.body, CheckIsPlaying(playing_reply))

\* Tokens the settings can hold.
CiderTokens == { None, Some(<<>>), Some(<<"t">>) }

\* media.rs:166-184  MediaMonitor::new(api_token): an empty token is None.
MediaNew(api_token) ==
    /\ media_info = MediaInfoDefault
    /\ cider_token = (IF api_token # None /\ api_token[1] = <<>> THEN None ELSE api_token)
    /\ media_lock = "free"
    /\ token_lock = "free"
    /\ poller_pc = "request"
    /\ poll_token = None
    /\ poll_result = None
    /\ poll_playing = None
    /\ poll_reply = None
    /\ prev_active = FALSE
    /\ ctl_between = FALSE
    /\ ctl_pc = "idle"
    /\ ctl_ok = FALSE
    /\ seek_secs = <<0, 1>>
    /\ seek_progress = None
    /\ seek_duration = None
    /\ seek_request = None

controlLocals == <<ctl_pc, ctl_ok, seek_secs, seek_progress, seek_duration, seek_request>>
pollerLocals == <<poller_pc, poll_result, poll_playing, poll_reply, prev_active,
                  ctl_between>>

\* A call from the main thread leaves the poller where it is. The history
\* of the poll is kept while the poll is in progress, where it notes
\* whether the call changed media_info, and forgotten once it is stored.
PollerUntouched ==
    /\ UNCHANGED <<media_lock, token_lock, poller_pc, poll_token, poll_result>>
    /\ IF poller_pc = "store"
       THEN /\ UNCHANGED <<poll_playing, poll_reply, prev_active>>
            /\ ctl_between' = (ctl_between \/ media_info' # media_info)
       ELSE /\ poll_playing' = None
            /\ poll_reply' = None
            /\ prev_active' = FALSE
            /\ ctl_between' = FALSE

\* media.rs:198-199  one poll: read the token and ask the endpoint.
MediaPollRequest ==
    /\ UNCHANGED notMedia
    /\ poller_pc = "request"
    /\ \E reply \in NowPlayingReplies, playing_reply \in IsPlayingReplies :
          /\ poll_result' = TryCiderApi(reply, playing_reply)
          /\ poll_reply' = Some(reply)
          /\ poll_playing' = (IF IsPlayingAsked(reply) THEN Some(playing_reply)
                              ELSE None)
    /\ poller_pc' = "store"
    /\ prev_active' = FALSE
    /\ ctl_between' = FALSE
    /\ UNCHANGED <<media_info, cider_token, media_lock, token_lock, poll_token,
                   controlLocals>>

\* Mutant of StoreNoMedia: a poll without media keeps what was stored.
StoreNoMediaKeeps == media_info

\* media.rs:204-205  no media: the stored value becomes the default.
StoreNoMedia == MediaInfoDefault

\* Mutant of Overwrite: the status a caller wrote survives the store.
OverwriteKeepsStatus(stored, info) == [info EXCEPT !.status = stored.status]

\* media.rs:201 and 205  `*stored = info`: the whole record is assigned.
Overwrite(stored, info) == info

\* media.rs:199-209  store the poll's result under the lock, then sleep.
MediaPollStore ==
    /\ UNCHANGED notMedia
    /\ poller_pc = "store"
    /\ media_info' = Overwrite(media_info, IF poll_result # None THEN poll_result[1]
                                            ELSE StoreNoMedia)
    /\ prev_active' = IsActive(media_info)
    /\ poll_result' = None
    /\ poller_pc' = "request"
    /\ UNCHANGED <<cider_token, media_lock, token_lock, poll_token, poll_playing,
                   poll_reply, ctl_between, controlLocals>>

\* media.rs:379-383  set_cider_token: lock, assign, unlock.
SetCiderToken ==
    /\ UNCHANGED notMedia
    /\ token_lock = "free"
    /\ \E token \in CiderTokens : token # cider_token /\ cider_token' = token
    /\ UNCHANGED <<media_info, controlLocals>>
    /\ PollerUntouched

\* media.rs:392-410  send_cider_command: the command is dispatched and
\* either succeeds or fails; the caller goes on at next_pc.
SendCiderCommand(next_pc) ==
    /\ ctl_ok' \in BOOLEAN
    /\ ctl_pc' = next_pc
    /\ UNCHANGED <<media_info, cider_token, seek_secs,
                   seek_progress, seek_duration, seek_request>>
    /\ PollerUntouched

\* media.rs:418  play_pause sends "playpause"
PlayPauseDispatch ==
    /\ UNCHANGED notMedia
    /\ ctl_pc = "idle"
    /\ SendCiderCommand("play_pause")

\* media.rs:421-425  the toggled status
Toggled(status) ==
    IF status = "Playing" THEN "Paused" ELSE "Playing"

\* media.rs:418-426  play_pause after the dispatch
PlayPauseApply ==
    /\ UNCHANGED notMedia
    /\ ctl_pc = "play_pause"
    /\ media_info' = (IF ctl_ok
                      THEN [media_info EXCEPT !.status = Toggled(media_info.status)]
                      ELSE media_info)
    /\ ctl_pc' = "idle"
    /\ ctl_ok' = FALSE
    /\ UNCHANGED <<cider_token, seek_secs, seek_progress,
                   seek_duration, seek_request>>
    /\ PollerUntouched

\* media.rs:431  next sends "next"
NextDispatch ==
    /\ UNCHANGED notMedia
    /\ ctl_pc = "idle"
    /\ SendCiderCommand("next")

\* media.rs:433-434 and 441-442  next / previous after the dispatch: the
\* result of the dispatch is not looked at.
SkipApply ==
    /\ media_info' = [media_info EXCEPT !.status = "Playing"]
    /\ ctl_pc' = "idle"
    /\ ctl_ok' = FALSE
    /\ UNCHANGED <<cider_token, seek_secs, seek_progress,
                   seek_duration, seek_request>>
    /\ PollerUntouched

\* media.rs:430-435  next after the dispatch
NextApply ==
    /\ UNCHANGED notMedia
    /\ ctl_pc = "next"
    /\ SkipApply

\* media.rs:439  previous sends "previous"
PreviousDispatch ==
    /\ UNCHANGED notMedia
    /\ ctl_pc = "idle"
    /\ SendCiderCommand("previous")

\* media.rs:438-443  previous after the dispatch
PreviousApply ==
    /\ UNCHANGED notMedia
    /\ ctl_pc = "previous"
    /\ SkipApply

\* Values of the f64 arguments, as quotients; <<0, 0>> is NaN.
Progresses == { <<0 - 1, 2>>, <<1, 2>>, <<1, 1>>, <<3, 2>>, <<0, 0>> }
SeekPositions == { <<3, 2>>, <<0 - 1, 1>> }

\* Mutant of Clamp01: the argument is used as it is.
Clamp01Missing(p) == p

\* f64::clamp(0.0, 1.0); NaN stays NaN.
Clamp01(p) ==
    IF p[2] = 0 THEN p
    ELSE IF p[1] < 0 THEN <<0, 1>>
    ELSE IF p[1] > p[2] THEN <<1, 1>>
    ELSE p

\* media.rs:493-499  seek_to_progress: read the duration under the lock,
\* compute the target and call seek.
SeekToProgressRead ==
    /\ UNCHANGED notMedia
    /\ ctl_pc = "idle"
    /\ \E progress \in Progresses :
          LET duration_seconds == FDiv(media_info.duration, 1000)
              target_seconds == FMul(duration_seconds, Clamp01(progress))
          IN  /\ seek_secs' = target_seconds
              /\ seek_progress' = Some(progress)
              /\ seek_duration' = Some(media_info.duration)
    /\ seek_request' = None
    /\ ctl_pc' = "seek"
    /\ UNCHANGED <<media_info, cider_token, ctl_ok>>
    /\ PollerUntouched

\* media.rs:454-457  seek(position_seconds) called directly.
SeekCall ==
    /\ UNCHANGED notMedia
    /\ ctl_pc = "idle"
    /\ \E position_seconds \in SeekPositions : seek_secs' = position_seconds
    /\ seek_progress' = None
    /\ seek_duration' = None
    /\ seek_request' = None
    /\ ctl_pc' = "seek"
    /\ UNCHANGED <<media_info, cider_token, ctl_ok>>
    /\ PollerUntouched

\* media.rs:459-473  seek builds the request with `position_seconds as u64`
\* and runs it.
SeekDispatch ==
    /\ UNCHANGED notMedia
    /\ ctl_pc = "seek"
    /\ seek_request' = Some(AsU64(seek_secs))
    /\ ctl_ok' \in BOOLEAN
    /\ ctl_pc' = "seek_apply"
    /\ UNCHANGED <<media_info, cider_token, seek_secs,
                   seek_progress, seek_duration>>
    /\ PollerUntouched

\* media.rs:473-481  seek after the dispatch: the position is set on success.
SeekApply ==
    /\ UNCHANGED notMedia
    /\ ctl_pc = "seek_apply"
    /\ media_info' = (IF ctl_ok
                      THEN [media_info EXCEPT
                              !.position = AsU64(FMul(seek_secs, <<1000, 1>>))]
                      ELSE media_info)
    /\ ctl_pc' = "idle"
    /\ seek_progress' = None
    /\ seek_duration' = None
    /\ seek_request' = None
    /\ ctl_ok' = FALSE
    /\ seek_secs' = <<0, 1>>
    /\ UNCHANGED cider_token
    /\ PollerUntouched

NextMedia ==
    \/ MediaPollRequest
    \/ MediaPollStore
    \/ PlayPauseDispatch
    \/ PlayPauseApply
    \/ NextDispatch
    \/ NextApply
    \/ PreviousDispatch
    \/ PreviousApply
    \/ SeekToProgressRead
    \/ SeekCall
    \/ SeekDispatch
    \/ SeekApply

----------------------------------------------------------------------------
(* Text helpers: a text is a sequence of characters *)

NL == "\n"
Whitespace == {Space, NL, "\t"}
Digits == {"0", "1", "2", "3", "4", "5", "6", "7", "8", "9"}

\* str::trim on a text that can hold line breaks.
RECURSIVE TrimWsStart(_)
TrimWsStart(s) == IF s # <<>> /\ Head(s) \in Whitespace THEN TrimWsStart(Tail(s)) ELSE s

RECURSIVE TrimWsEnd(_)
TrimWsEnd(s) ==
    IF s # <<>> /\ s[Len(s)] \in Whitespace THEN TrimWsEnd(SubSeq(s, 1, Len(s) - 1)) ELSE s

TrimWs(s) == TrimWsEnd(TrimWsStart(s))

\* str::starts_with(pat) and str::contains(pat)
StartsWith(s, pat) == Len(s) >= Len(pat) /\ SubSeq(s, 1, Len(pat)) = pat
Contains(s, pat) ==
    \E i \in 1..(Len(s) - Len(pat) + 1) : SubSeq(s, i, i + Len(pat) - 1) = pat

\* str::split_whitespace: the words of a text, in order.
RECURSIVE SplitWhitespace(_, _, _)
SplitWhitespace(s, word, words) ==
    IF s = <<>> THEN (IF word = <<>> THEN words ELSE Append(words, word))
    ELSE IF Head(s) \in Whitespace
         THEN SplitWhitespace(Tail(s), <<>>, IF word = <<>> THEN words ELSE Append(words, word))
         ELSE SplitWhitespace(Tail(s), Append(word, Head(s)), words)

DigitValue(c) ==
    CASE c = "0" -> 0 [] c = "1" -> 1 [] c = "2" -> 2 [] c = "3" -> 3 [] c = "4" -> 4
      [] c = "5" -> 5 [] c = "6" -> 6 [] c = "7" -> 7 [] c = "8" -> 8 [] c = "9" -> 9

RECURSIVE DigitsValue(_, _)
DigitsValue(s, acc) ==
    IF s = <<>> THEN acc ELSE DigitsValue(Tail(s), acc * 10 + DigitValue(Head(s)))

RECURSIVE PowerOfTen(_)
PowerOfTen(n) == IF n = 0 THEN 1 ELSE 10 * PowerOfTen(n - 1)

\* str::parse::<f32> of an unsigned decimal text (digits with at most one
\* point); any other text here is one parse rejects.
ParseF32(s) ==
    LET points == {i \in 1..Len(s) : s[i] = "."}
        digits == SelectSeq(s, LAMBDA c : c \in Digits)
    IN  IF /\ \A i \in 1..Len(s) : s[i] \in Digits \cup {"."}
           /\ Cardinality(points) <= 1
           /\ digits # <<>>
        THEN LET decimals == IF points = {} THEN 0
                             ELSE Len(s) - (CHOOSE i \in points : TRUE)
             IN  Some(FDiv(DigitsValue(digits, 0), PowerOfTen(decimals)))
        ELSE None

----------------------------------------------------------------------------
(* UtilizationMonitor *)

\* What sysinfo can report for the global CPU usage, in percent.
CpuReadings == {0, 50}

\* What sysinfo can report for used and total memory.
MemoryReadings ==
    { [used |-> 0, total |-> 0], [used |-> 1, total |-> 2],
      [used |-> 2, total |-> 2], [used |-> 1, total |-> 4] }

\* Mutant of MemoryUsage: the division is not guarded.
MemoryUsageUnguarded(used, total) == FMul(FDiv(used, total), <<100, 1>>)

\* utilization.rs:153-157 (and widget.rs:258-262)  memory usage in percent.
MemoryUsage(used, total) ==
    IF total > 0 THEN FMul(FDiv(used, total), <<100, 1>>) ELSE ZeroRate

\* The divisor of the division MemoryUsage performs, None when it performs none.
MemoryDivisor(used, total) == IF total > 0 THEN Some(total) ELSE None

\* What the tools and files probed by detect_gpu_vendor can look like: which
\* binaries exist, and the driver links of the entries of /sys/class/drm
\* (None when the directory cannot be read).
DrmDriverListings ==
    { None,
      Some(<< [name |-> <<"c", "a", "r", "d", "0", "-", "D", "P">>, link |-> Some(<<"a", "m", "d", "g", "p", "u">>)],
              [name |-> <<"c", "a", "r", "d", "0">>, link |-> Some(<<"i", "9", "1", "5">>)] >>),
      Some(<< [name |-> <<"r", "e", "n", "d", "e", "r", "D", "1", "2", "8">>, link |-> Some(<<"i", "9", "1", "5">>)],
              [name |-> <<"c", "a", "r", "d", "0">>, link |-> None],
              [name |-> <<"c", "a", "r", "d", "1">>, link |-> Some(<<"a", "m", "d", "g", "p", "u">>)] >>),
      Some(<< [name |-> <<"c", "a", "r", "d", "0">>, link |-> Some(<<"v", "i", "r", "t", "i", "o">>)] >>) }

GpuEnvironments ==
    [nvidia_smi : BOOLEAN, radeontop : BOOLEAN, rocm_smi : BOOLEAN,
     intel_gpu_top : BOOLEAN, drm : DrmDriverListings]

\* A machine without GPU tools and without /sys/class/drm.
NoGpuEnvironment ==
    [nvidia_smi |-> FALSE, radeontop |-> FALSE, rocm_smi |-> FALSE,
     intel_gpu_top |-> FALSE, drm |-> None]

\* utilization.rs:205 / 255 / 308  a card device, not a connector or render node.
IsCardNode(name) == StartsWith(name, <<"c", "a", "r", "d">>) /\ ~Contains(name, <<"-">>)

\* utilization.rs:199-217  the driver scan of /sys/class/drm.
RECURSIVE DriverScan(_, _)
DriverScan(entries, i) ==
    IF i > Len(entries) THEN "None"
    ELSE LET entry == entries[i] IN
         IF IsCardNode(entry.name) /\ entry.link # None
         THEN IF Contains(entry.link[1], <<"a", "m", "d", "g", "p", "u">>) THEN "Amd"
              ELSE IF Contains(entry.link[1], <<"i", "9", "1", "5">>) THEN "Intel"
              ELSE DriverScan(entries, i + 1)
         ELSE DriverScan(entries, i + 1)

\* Mutant of DetectGpuVendor: the AMD tools are probed before the NVIDIA tool.
DetectGpuVendorAmdFirst(env) ==
    IF env.radeontop \/ env.rocm_smi THEN "Amd"
    ELSE IF env.nvidia_smi THEN "Nvidia"
    ELSE IF env.intel_gpu_top THEN "Intel"
    ELSE IF env.drm # None THEN DriverScan(env.drm[1], 1)
    ELSE "None"

\* utilization.rs:181-220  detect_gpu_vendor
DetectGpuVendor(env) ==
    IF env.nvidia_smi THEN "Nvidia"
    ELSE IF env.radeontop \/ env.rocm_smi THEN "Amd"
    ELSE IF env.intel_gpu_top THEN "Intel"
    ELSE IF env.drm # None THEN DriverScan(env.drm[1], 1)
    ELSE "None"

\* What running nvidia-smi can come back with.
NvidiaReplies ==
    { [kind |-> "spawn_failed", body |-> <<>>],
      [kind |-> "exit_failure", body |-> <<>>],
      [kind |-> "body", body |-> <<"4", "5", NL>>],
      [kind |-> "body", body |-> <<"7", NL>>],
      [kind |-> "body", body |-> <<"4", "5", NL, "7", NL>>],
      [kind |-> "body", body |-> <<"[", "N", "/", "A", "]", NL>>] }

\* utilization.rs:229-242  fetch_nvidia_gpu_usage
FetchNvidiaGpuUsage(reply) ==
    IF reply.kind = "body" THEN ParseF32(TrimWs(reply.body)) ELSE None

\* What fetch_amd_gpu_usage can find: the entries of /sys/class/drm with the
\* content of device/gpu_busy_percent (None: unreadable), whether radeontop
\* exists and what running it comes back with (a body is a list of lines).
AmdProbes ==
    { [drm |-> Some(<< [name |-> <<"c", "a", "r", "d", "0", "-", "D", "P">>, busy |-> Some(<<"7">>)],
                       [name |-> <<"c", "a", "r", "d", "1">>, busy |-> None],
                       [name |-> <<"c", "a", "r", "d", "0">>, busy |-> Some(<<"4", "5", NL>>)] >>),
       tool_exists |-> FALSE, tool |-> [kind |-> "spawn_failed", body |-> <<>>]],
      [drm |-> Some(<< [name |-> <<"c", "a", "r", "d", "1">>, busy |-> Some(<<"x">>)] >>),
       tool_exists |-> TRUE, tool |-> [kind |-> "body", body |-> << <<"D", "u", "m", "p", "i", "n", "g", Space, "t", "o", Space, "-">>, <<"g", "p", "u", Space, "7", "%">> >>]],
      [drm |-> None,
       tool_exists |-> TRUE, tool |-> [kind |-> "body", body |-> << <<"1", ".", "0", ":", Space, "b", "u", "s", Space, "0", "3", ",", Space, "g", "p", "u", Space, "4", "5", ".", "0", "0", "%">> >>]],
      [drm |-> Some(<<>>),
       tool_exists |-> FALSE, tool |-> [kind |-> "spawn_failed", body |-> <<>>]],
      [drm |-> None,
       tool_exists |-> TRUE, tool |-> [kind |-> "spawn_failed", body |-> <<>>]],
      [drm |-> None,
       tool_exists |-> TRUE, tool |-> [kind |-> "exit_failure", body |-> <<>>]] }

\* utilization.rs:250-264  the first card whose gpu_busy_percent parses.
RECURSIVE AmdSysfsScan(_, _)
AmdSysfsScan(entries, i) ==
    IF i > Len(entries) THEN None
    ELSE LET entry == entries[i]
             usage == IF entry.busy = None THEN None ELSE ParseF32(TrimWs(entry.busy[1]))
         IN  IF IsCardNode(entry.name) /\ usage # None
             THEN usage
             ELSE AmdSysfsScan(entries, i + 1)

\* utilization.rs:280-288  one line of radeontop: "gpu 45.67%".
RadeontopLineUsage(line) ==
    LET words == SplitWhitespace(line, <<>>, <<>>) IN
    IF Contains(line, <<"g", "p", "u">>) /\ Len(words) >= 2 /\ words[2][Len(words[2])] = "%"
    THEN ParseF32(SubSeq(words[2], 1, Len(words[2]) - 1))
    ELSE None

\* utilization.rs:279-289  the first line that gives a value.
RECURSIVE RadeontopScan(_, _)
RadeontopScan(lines, i) ==
    IF i > Len(lines) THEN None
    ELSE IF RadeontopLineUsage(lines[i]) # None THEN RadeontopLineUsage(lines[i])
    ELSE RadeontopScan(lines, i + 1)

\* utilization.rs:247-295  fetch_amd_gpu_usage
FetchAmdGpuUsage(probe) ==
    LET sysfs == IF probe.drm = None THEN None ELSE AmdSysfsScan(probe.drm[1], 1) IN
    IF sysfs # None THEN sysfs
    ELSE IF probe.tool_exists /\ probe.tool.kind = "body"
         THEN RadeontopScan(probe.tool.body, 1)
         ELSE None

BusyKey == "\"busy\":"

\* What fetch_intel_gpu_usage can find: the entries of /sys/class/drm with
\* the content of gt/gt0/rps_cur_freq_mhz and rps_max_freq_mhz, whether
\* intel_gpu_top exists and what running it comes back with.
IntelProbes ==
    { [drm |-> Some(<< [name |-> <<"c", "a", "r", "d", "0">>, cur |-> Some(<<"3", "0", "0", NL>>), max |-> Some(<<"6", "0", "0", NL>>)] >>),
       tool_exists |-> FALSE, tool |-> [kind |-> "spawn_failed", body |-> <<>>]],
      [drm |-> Some(<< [name |-> <<"c", "a", "r", "d", "0">>, cur |-> Some(<<"3", "0", "0", NL>>), max |-> Some(<<"0", NL>>)] >>),
       tool_exists |-> TRUE,
       tool |-> [kind |-> "body", body |-> <<"{", BusyKey, Space, "4", "5", ",", "}">>]],
      [drm |-> None,
       tool_exists |-> TRUE,
       tool |-> [kind |-> "body", body |-> <<"{", BusyKey, "4", "5", ",", "}">>]],
      [drm |-> Some(<< [name |-> <<"c", "a", "r", "d", "0">>, cur |-> None, max |-> Some(<<"6", "0", "0", NL>>)] >>),
       tool_exists |-> FALSE, tool |-> [kind |-> "spawn_failed", body |-> <<>>]],
      [drm |-> None,
       tool_exists |-> TRUE, tool |-> [kind |-> "exit_failure", body |-> <<>>]],
      [drm |-> None,
       tool_exists |-> TRUE, tool |-> [kind |-> "body", body |-> <<"{", "}">>]] }

\* utilization.rs:303-328  the first card whose frequencies parse, max > 0.
RECURSIVE IntelSysfsScan(_, _)
IntelSysfsScan(entries, i) ==
    IF i > Len(entries) THEN None
    ELSE LET entry == entries[i]
             cur_freq == IF entry.cur = None THEN None ELSE ParseF32(TrimWs(entry.cur[1]))
             max_freq == IF entry.max = None THEN None ELSE ParseF32(TrimWs(entry.max[1]))
         IN  IF /\ IsCardNode(entry.name)
                /\ cur_freq # None
                /\ max_freq # None
                /\ max_freq[1][1] > 0
             THEN Some(FMul(FDiv(cur_freq[1][1] * max_freq[1][2],
                                 cur_freq[1][2] * max_freq[1][1]), <<100, 1>>))
             ELSE IntelSysfsScan(entries, i + 1)

\* utilization.rs:342-348  the "busy" field of intel_gpu_top's output: the
\* text from 8 bytes after the start of the 7-byte key up to the first
\* character that is neither numeric nor a point.
IntelTopUsage(body) ==
    LET k == FindFrom(body, {BusyKey}, 1) IN
    IF k = 0 \/ k + 1 > Len(body) THEN None
    ELSE LET after_busy == SubSeq(body, k + 2, Len(body))
             ends == {i \in 1..Len(after_busy) : after_busy[i] \notin Digits \cup {"."}}
         IN  IF ends = {} THEN None
             ELSE LET end_idx == CHOOSE i \in ends : \A j \in ends : i <= j
                  IN  ParseF32(SubSeq(after_busy, 1, end_idx - 1))

\* utilization.rs:300-355  fetch_intel_gpu_usage
FetchIntelGpuUsage(probe) ==
    LET sysfs == IF probe.drm = None THEN None ELSE IntelSysfsScan(probe.drm[1], 1) IN
    IF sysfs # None THEN sysfs
    ELSE IF probe.tool_exists /\ probe.tool.kind = "body"
         THEN IntelTopUsage(probe.tool.body)
         ELSE None

\* utilization.rs:100-138  UtilizationMonitor::new in environment env; the
\* GPU thread is spawned unless no vendor was detected.
UtilNew(env) ==
    /\ cpu_usage = 0
    /\ memory_usage = ZeroRate
    /\ memory_total = 0
    /\ memory_used = 0
    /\ mem_divisor = None
    /\ gpu_usage = ZeroRate
    /\ gpu_lock = "free"
    /\ gpu_vendor = DetectGpuVendor(env)
    /\ gpu_env = env
    /\ gpu_pc = (IF DetectGpuVendor(env) = "None" THEN "not_spawned" ELSE "sleep")
    /\ gpu_fetched = None
    /\ gpu_last_value = ZeroRate
    /\ gpu_cycle_empty = FALSE

\* utilization.rs:144-160  UtilizationMonitor::update
UtilSample(cpu, mem) ==
    /\ cpu_usage' = cpu
    /\ memory_used' = mem.used
    /\ memory_total' = mem.total
    /\ memory_usage' = MemoryUsage(mem.used, mem.total)
    /\ mem_divisor' = MemoryDivisor(mem.used, mem.total)
    /\ UNCHANGED <<gpu_usage, gpu_lock, gpu_vendor, gpu_env, gpu_pc, gpu_fetched,
                   gpu_last_value, gpu_cycle_empty>>

\* A call of update() on a UtilizationMonitor of its own.
UtilUpdate ==
    /\ UNCHANGED notUtil
    /\ \E cpu \in CpuReadings, mem \in MemoryReadings : UtilSample(cpu, mem)

\* What one fetch of the GPU thread can return (utilization.rs:115-120).
GpuFetchResults ==
    CASE gpu_vendor = "Nvidia" -> {FetchNvidiaGpuUsage(r) : r \in NvidiaReplies}
      [] gpu_vendor = "Amd" -> {FetchAmdGpuUsage(p) : p \in AmdProbes}
      [] gpu_vendor = "Intel" -> {FetchIntelGpuUsage(p) : p \in IntelProbes}
      [] OTHER -> {None}

\* utilization.rs:113-120  the GPU thread wakes up and fetches.
GpuFetch ==
    /\ UNCHANGED notUtil
    /\ gpu_pc = "sleep"
    /\ \E usage \in GpuFetchResults :
          /\ gpu_fetched' = usage
          /\ gpu_last_value' = (IF usage # None THEN usage[1] ELSE gpu_last_value)
          /\ gpu_cycle_empty' = (usage = None)
    /\ gpu_pc' = "store"
    /\ UNCHANGED <<cpu_usage, memory_usage, memory_total, memory_used, mem_divisor,
                   gpu_usage, gpu_lock, gpu_vendor, gpu_env>>

\* Mutant of GpuStored: a cycle without a value resets the shared value.
GpuStoredOrZero(current, usage) == IF usage # None THEN usage[1] ELSE ZeroRate

\* utilization.rs:122-124  the shared value after a fetch returned `usage`.
GpuStored(current, usage) == IF usage # None THEN usage[1] ELSE current

\* utilization.rs:122-125  the GPU thread stores the value, if any.
GpuStore ==
    /\ UNCHANGED notUtil
    /\ gpu_pc = "store"
    /\ gpu_usage' = GpuStored(gpu_usage, gpu_fetched)
    /\ gpu_fetched' = None
    /\ gpu_pc' = "sleep"
    /\ UNCHANGED <<cpu_usage, memory_usage, memory_total, memory_used, mem_divisor,
                   gpu_lock, gpu_vendor, gpu_env, gpu_last_value, gpu_cycle_empty>>

NextUtil ==
    \/ UtilUpdate
    \/ GpuFetch
    \/ GpuStore

----------------------------------------------------------------------------
(* TemperatureMonitor *)

UpperCase == <<"A", "B", "C", "D", "E", "F", "G", "H", "I", "J", "K", "L", "M", "N", "O", "P", "Q", "R", "S", "T", "U", "V", "W", "X", "Y", "Z">>
LowerCase == <<"a", "b", "c", "d", "e", "f", "g", "h", "i", "j", "k", "l", "m", "n", "o", "p", "q", "r", "s", "t", "u", "v", "w", "x", "y", "z">>

\* char::to_lowercase of one ASCII character.
ToLowerChar(c) ==
    IF \E i \in 1..Len(UpperCase) : UpperCase[i] = c
    THEN LowerCase[CHOOSE i \in 1..Len(UpperCase) : UpperCase[i] = c]
    ELSE c

\* str::to_lowercase
ToLowercase(s) == [i \in 1..Len(s) |-> ToLowerChar(s[i])]

\* temperature.rs:104-105  the patterns of a CPU sensor.
CpuPatterns == {<<"c", "p", "u">>, <<"p", "a", "c", "k", "a", "g", "e">>, <<"c", "o", "r", "e">>, <<"t", "c", "t", "l">>, <<"t", "d", "i", "e">>}

\* temperature.rs:116-117  the patterns of a GPU sensor.
GpuPatterns == {<<"g", "p", "u">>, <<"n", "v", "i", "d", "i", "a">>, <<"a", "m", "d">>, <<"r", "a", "d", "e", "o", "n">>, <<"e", "d", "g", "e">>}

\* Labels hwmon sensors can carry.
SensorLabels == {<<"T", "c", "t", "l">>,
                  <<"G", "P", "U">>,
                  <<"e", "d", "g", "e">>,
                  <<"n", "v", "m", "e">>,
                  <<"G", "P", "U", " ", "c", "o", "r", "e">>}

\* Temperatures a sensor can report, in degrees Celsius.
SensorTemperatures == {40, 70}

\* Components::new_with_refreshed_list: the sensors in enumeration order.
ComponentLists ==
    UNION { [1..n -> [label : SensorLabels, temperature : SensorTemperatures]] :
            n \in 0..MaxSensors }

\* temperature.rs:103-105, 115-117  the lowercased label contains a pattern.
LabelMatches(label, patterns) ==
    LET lowered == ToLowercase(label)
    IN  \E pat \in patterns : Contains(lowered, pat)

\* Mutant of ScanSensors: the scan does not stop at the first match.
RECURSIVE ScanSensorsNoBreak(_, _, _, _)
ScanSensorsNoBreak(list, patterns, i, found) ==
    IF i > Len(list) THEN found
    ELSE IF LabelMatches(list[i].label, patterns)
         THEN ScanSensorsNoBreak(list, patterns, i + 1, list[i].temperature)
         ELSE ScanSensorsNoBreak(list, patterns, i + 1, found)

\* temperature.rs:101-109, 113-121  the loop over the components from the
\* i-th on: the temperature of the first match, else what was found so far.
RECURSIVE ScanSensors(_, _, _, _)
ScanSensors(list, patterns, i, found) ==
    IF i > Len(list) THEN found
    ELSE IF LabelMatches(list[i].label, patterns)
         THEN list[i].temperature
         ELSE ScanSensors(list, patterns, i + 1, found)

\* temperature.rs:65-71  TemperatureMonitor::new
TempNew(list) ==
    /\ components = list
    /\ cpu_temp = 0
    /\ gpu_temp = 0
    /\ temp_updated = FALSE

\* Mutant of TempScanned: the temperatures are not reset before the scans.
TempScannedKeeps(list) ==
    /\ components' = list
    /\ cpu_temp' = ScanSensors(list, CpuPatterns, 1, cpu_temp)
    /\ gpu_temp' = ScanSensors(list, GpuPatterns, 1, gpu_temp)
    /\ temp_updated' = TRUE

\* temperature.rs:100-121  update, once the refresh has left `list`: each
\* temperature is set to 0.0 and then to what its scan finds.
TempScanned(list) ==
    /\ components' = list
    /\ cpu_temp' = ScanSensors(list, CpuPatterns, 1, 0)
    /\ gpu_temp' = ScanSensors(list, GpuPatterns, 1, 0)
    /\ temp_updated' = TRUE

\* temperature.rs:95-122  TemperatureMonitor::update. The refresh reads the
\* sensors again; the list of sensors stays the one found by new().
TempSample(temps) ==
    TempScanned([i \in 1..Len(components) |->
                   [label |-> components[i].label, temperature |-> temps[i]]])

\* Mutant of TempUpdate: the CPU temperature is also published as CPU usage.
TempUpdateWritesCpuUsage ==
    /\ UNCHANGED <<weatherVars, netVars, notifVars, mediaVars, widgetVars, mainVars>>
    /\ \E temps \in [1..Len(components) -> SensorTemperatures] : TempSample(temps)
    /\ cpu_usage' = cpu_temp'
    /\ UNCHANGED <<memory_usage, memory_total, memory_used, mem_divisor, gpu_usage,
                   gpu_lock, gpu_vendor, gpu_env, gpu_pc, gpu_fetched, gpu_last_value,
                   gpu_cycle_empty>>

\* A call of update() on a TemperatureMonitor of its own.
TempUpdate ==
    /\ UNCHANGED notTemp
    /\ \E temps \in [1..Len(components) -> SensorTemperatures] : TempSample(temps)

NextTemp == TempUpdate

\* The lists a refresh can leave, of at most MaxRelisted sensors.
RelistedLists == {list \in ComponentLists : Len(list) <= MaxRelisted}

\* temperature.rs:97  what Components::refresh does to the list is the
\* library's: here it may also find other sensors than new() did.
TempUpdateRelisted ==
    /\ UNCHANGED notTemp
    /\ \E list \in RelistedLists : TempScanned(list)

NextTempRelist == TempUpdateRelisted

----------------------------------------------------------------------------
(* MonitorWidget of widget.rs: the application widget and its messages *)

\* Configurations the applet can store (update_interval_ms, widget_movable,
\* widget_x, widget_y).
WidgetConfigs ==
    { [update_interval_ms |-> 1000, widget_movable |-> FALSE, widget_x |-> 0, widget_y |-> 0],
      [update_interval_ms |-> 500, widget_movable |-> TRUE, widget_x |-> 0, widget_y |-> 0] }

DefaultWidgetConfig ==
    [update_interval_ms |-> 1000, widget_movable |-> FALSE, widget_x |-> 0, widget_y |-> 0]

\* Positions a WindowMoved message can carry.
WindowMoves == { <<5, 7>> }

\* What sysinfo can report to the widget: the counters of each interface.
WidgetInterfaceReadings ==
    { nets \in InterfaceReadings : nets[2] = [received |-> 0, transmitted |-> 0] }

\* widget.rs:39-58, 93-118  Default and init.
WidgetInit(config, checks) ==
    /\ w_config = config
    /\ w_cpu_usage = 0
    /\ w_memory_usage = ZeroRate
    /\ w_memory_total = 0
    /\ w_memory_used = 0
    /\ w_mem_divisor = None
    /\ w_network_rx_bytes = 0
    /\ w_network_tx_bytes = 0
    /\ w_network_rx_rate = ZeroRate
    /\ w_network_tx_rate = ZeroRate
    /\ w_disk_read_rate = ZeroRate
    /\ w_disk_write_rate = ZeroRate
    /\ w_pending = 0
    /\ w_overflow_checks = checks
    /\ w_panicked = FALSE

widgetStats == <<w_cpu_usage, w_memory_usage, w_memory_total, w_memory_used,
                 w_mem_divisor, w_network_rx_bytes, w_network_tx_bytes,
                 w_network_rx_rate, w_network_tx_rate, w_disk_read_rate,
                 w_disk_write_rate>>

\* widget.rs:226-228  Message::UpdateConfig(config)
WidgetUpdateConfig ==
    /\ UNCHANGED notWidget
    /\ ~w_panicked
    /\ \E config \in WidgetConfigs : config # w_config /\ w_config' = config
    /\ UNCHANGED <<widgetStats, w_pending, w_overflow_checks, w_panicked>>

\* widget.rs:229-234  Message::Tick: a task that delivers UpdateSystemStats.
WidgetTick ==
    /\ UNCHANGED notWidget
    /\ ~w_panicked
    /\ w_pending < MaxPendingStats
    /\ w_pending' = w_pending + 1
    /\ UNCHANGED <<widgetStats, w_config, w_overflow_checks, w_panicked>>

\* widget.rs:235-248  Message::WindowMoved(x, y): kept when the widget is movable.
WidgetWindowMoved ==
    /\ UNCHANGED notWidget
    /\ ~w_panicked
    /\ \E pos \in WindowMoves :
          w_config' = (IF w_config.widget_movable
                       THEN [w_config EXCEPT !.widget_x = pos[1], !.widget_y = pos[2]]
                       ELSE w_config)
    /\ UNCHANGED <<widgetStats, w_pending, w_overflow_checks, w_panicked>>

\* `a - b` on u64: the difference, or on underflow the wrapped value.
WrappingSub(a, b) == IF a >= b THEN a - b ELSE U64Modulus + a - b

\* f64 quotient of two quotients.
FQuot(a, b) ==
    IF a[2] = 0 \/ b[2] = 0 THEN <<0, 0>>
    ELSE IF b[1] = 0 THEN FDiv(a[1], 0)
    ELSE IF b[1] < 0 THEN FDiv((0 - a[1]) * b[2], a[2] * (0 - b[1]))
    ELSE FDiv(a[1] * b[2], a[2] * b[1])

\* widget.rs:275-278  the rate of one direction.
WidgetRate(total, previous, interval_ms) ==
    FQuot(<<WrappingSub(total, previous), 1>>, FDiv(interval_ms, 1000))

\* widget.rs:249-289  Message::UpdateSystemStats. A subtraction that
\* underflows panics in a build with overflow checks and wraps in one without.
WidgetUpdateSystemStats ==
    /\ UNCHANGED notWidget
    /\ ~w_panicked
    /\ w_pending > 0
    /\ w_pending' = w_pending - 1
    /\ w_cpu_usage' \in CpuReadings
    /\ \E mem \in MemoryReadings :
          /\ w_memory_used' = mem.used
          /\ w_memory_total' = mem.total
          /\ w_memory_usage' = MemoryUsage(mem.used, mem.total)
          /\ w_mem_divisor' = MemoryDivisor(mem.used, mem.total)
    /\ \E nets \in WidgetInterfaceReadings :
          LET total_rx == TotalRx(nets)
              total_tx == TotalTx(nets)
              underflow == /\ w_network_rx_bytes > 0
                           /\ \/ total_rx < w_network_rx_bytes
                              \/ total_tx < w_network_tx_bytes
          IN  /\ IF underflow /\ w_overflow_checks
                 THEN /\ w_panicked' = TRUE
                      /\ w_network_rx_rate' =
                            (IF total_rx >= w_network_rx_bytes
                             THEN WidgetRate(total_rx, w_network_rx_bytes,
                                             w_config.update_interval_ms)
                             ELSE w_network_rx_rate)
                      /\ UNCHANGED <<w_network_rx_bytes, w_network_tx_bytes,
                                     w_network_tx_rate,
                                     w_disk_read_rate, w_disk_write_rate>>
                 ELSE /\ w_panicked' = FALSE
                      /\ w_network_rx_rate' =
                            (IF w_network_rx_bytes > 0
                             THEN WidgetRate(total_rx, w_network_rx_bytes,
                                             w_config.update_interval_ms)
                             ELSE w_network_rx_rate)
                      /\ w_network_tx_rate' =
                            (IF w_network_rx_bytes > 0
                             THEN WidgetRate(total_tx, w_network_tx_bytes,
                                             w_config.update_interval_ms)
                             ELSE w_network_tx_rate)
                      /\ w_network_rx_bytes' = total_rx
                      /\ w_network_tx_bytes' = total_tx
                      /\ w_disk_read_rate' = ZeroRate
                      /\ w_disk_write_rate' = ZeroRate
    /\ UNCHANGED <<w_config, w_overflow_checks>>

NextWidget ==
    \/ WidgetUpdateConfig
    \/ WidgetTick
    \/ WidgetWindowMoved
    \/ WidgetUpdateSystemStats

\* The memory samplers of both widgets side by side.
NextSamples ==
    \/ UtilUpdate
    \/ WidgetUpdateConfig
    \/ WidgetTick
    \/ WidgetWindowMoved
    \/ WidgetUpdateSystemStats

----------------------------------------------------------------------------
(* MonitorWidget of widget_main.rs: the main thread of the widget *)

\* Configurations the main thread can load (update_interval_ms, show_weather).
MainConfigs ==
    { [update_interval_ms |-> 1000, show_weather |-> TRUE],
      [update_interval_ms |-> 1000, show_weather |-> FALSE] }

DefaultMainConfig == [update_interval_ms |-> 1000, show_weather |-> TRUE]

\* The machine the widget runs on: what sysinfo reports at every sample.
MainCpuReading == 50
MainMemoryReading == [used |-> 1, total |-> 2]
MainComponents == << [label |-> <<"T", "c", "t", "l">>, temperature |-> 40] >>
MainTemperatures == [i \in 1..Len(MainComponents) |-> 70]
MainInterfaceReading == [i \in 1..Len(Interfaces) |-> [received |-> 1, transmitted |-> 1]]

\* widget_main.rs:441-448, 464  the fields draw() copies for rendering.
Snapshot ==
    [cpu_usage |-> cpu_usage, memory_usage |-> memory_usage,
     gpu_usage |-> gpu_usage, cpu_temp |-> cpu_temp, gpu_temp |-> gpu_temp,
     network_rx_rate |-> network_rx_rate, network_tx_rate |-> network_tx_rate,
     weather_data |-> weather_data]

\* widget_main.rs:260-300  MonitorWidget::new, and last_draw of main().
MainNew(config) ==
    /\ main_pc = "loop"
    /\ main_config = config
    /\ main_last_update = 0
    /\ last_draw = 0
    /\ rendered = None

collectorVars == <<weatherVars, netVars, notifVars, mediaVars, utilVars, widgetVars,
                   tempVars>>

\* widget_main.rs:1097-1100  the main loop finds a redraw due and calls draw().
MainDrawDue ==
    /\ main_pc = "loop"
    /\ now - last_draw >= 1
    /\ last_draw' = now
    /\ main_pc' = "stats"
    /\ UNCHANGED <<main_config, main_last_update, rendered, collectorVars>>

\* widget_main.rs:1103-1121  the main loop finds a changed configuration and
\* calls draw().
MainConfigReload ==
    /\ main_pc = "loop"
    /\ \E config \in MainConfigs : config # main_config /\ main_config' = config
    /\ last_draw' = now
    /\ main_pc' = "stats"
    /\ UNCHANGED <<main_last_update, rendered, collectorVars>>

\* widget_main.rs:103-111, 172-184, 1124  a frame callback or a configure
\* event dispatched by the main loop calls draw().
MainEventDraw ==
    /\ main_pc = "loop"
    /\ main_pc' = "stats"
    /\ UNCHANGED <<main_config, main_last_update, last_draw, rendered, collectorVars>>

\* Mutant of MainStatsDue: the updates run at every draw().
MainStatsDueAlways ==
    /\ main_pc = "stats"
    /\ main_last_update' = now
    /\ main_pc' = "utilization"
    /\ UNCHANGED <<main_config, last_draw, rendered, collectorVars>>

\* widget_main.rs:331-336  update_system_stats returns: the interval has not
\* elapsed.
MainStatsSkip ==
    /\ main_pc = "stats"
    /\ (now - main_last_update) * 1000 < main_config.update_interval_ms
    /\ main_pc' = "render"
    /\ UNCHANGED <<main_config, main_last_update, last_draw, rendered, collectorVars>>

\* widget_main.rs:331-338  update_system_stats goes on: the interval has elapsed.
MainStatsDue ==
    /\ main_pc = "stats"
    /\ (now - main_last_update) * 1000 >= main_config.update_interval_ms
    /\ main_last_update' = now
    /\ main_pc' = "utilization"
    /\ UNCHANGED <<main_config, last_draw, rendered, collectorVars>>

\* widget_main.rs:341  self.utilization.update()
MainUtilization ==
    /\ main_pc = "utilization"
    /\ UtilSample(MainCpuReading, MainMemoryReading)
    /\ main_pc' = "temperature"
    /\ UNCHANGED <<main_config, main_last_update, last_draw, rendered>>
    /\ UNCHANGED <<weatherVars, netVars, notifVars, mediaVars, widgetVars, tempVars>>

\* widget_main.rs:342  self.temperature.update()
MainTemperature ==
    /\ main_pc = "temperature"
    /\ TempSample(MainTemperatures)
    /\ main_pc' = "network"
    /\ UNCHANGED <<main_config, main_last_update, last_draw, rendered>>
    /\ UNCHANGED <<weatherVars, netVars, notifVars, mediaVars, utilVars, widgetVars>>

\* widget_main.rs:343  self.network.update()
MainNetwork ==
    /\ main_pc = "network"
    /\ NetSample(MainInterfaceReading)
    /\ main_pc' = "weather"
    /\ UNCHANGED <<main_config, main_last_update, last_draw, rendered>>
    /\ UNCHANGED <<weatherVars, notifVars, mediaVars, utilVars, widgetVars, tempVars>>

\* widget_main.rs:346-348  the weather is not shown, or update() returns early.
MainWeatherSkip ==
    /\ main_pc = "weather"
    /\ \/ ~main_config.show_weather /\ UNCHANGED weatherVars
       \/ main_config.show_weather /\ WeatherSkipped
    /\ main_pc' = "render"
    /\ UNCHANGED <<main_config, main_last_update, last_draw, rendered>>
    /\ UNCHANGED <<netVars, notifVars, mediaVars, utilVars, widgetVars, tempVars>>

\* widget_main.rs:346-348, weather.rs:89-91, 111  update() calls fetch_weather:
\* the thread is inside reqwest::blocking::get.
MainWeatherRequest ==
    /\ main_pc = "weather"
    /\ main_config.show_weather
    /\ WeatherFetchDue
    /\ main_pc' = "fetching"
    /\ UNCHANGED <<main_config, main_last_update, last_draw, rendered, collectorVars>>

\* weather.rs:91-99  the request returns and update() stores its outcome.
MainWeatherResponse ==
    /\ main_pc = "fetching"
    /\ WeatherFetched
    /\ main_pc' = "render"
    /\ UNCHANGED <<main_config, main_last_update, last_draw, rendered>>
    /\ UNCHANGED <<netVars, notifVars, mediaVars, utilVars, widgetVars, tempVars>>

\* widget_main.rs:441-464  draw() copies the snapshot and renders it.
MainRender ==
    /\ main_pc = "render"
    /\ rendered' = Some(Snapshot)
    /\ main_pc' = "loop"
    /\ UNCHANGED <<main_config, main_last_update, last_draw, collectorVars>>

\* The main thread and the clocks.
NextMain ==
    \/ MainDrawDue
    \/ MainConfigReload
    \/ MainEventDraw
    \/ MainStatsSkip
    \/ MainStatsDue
    \/ MainUtilization
    \/ MainTemperature
    \/ MainNetwork
    \/ MainWeatherSkip
    \/ MainWeatherRequest
    \/ MainWeatherResponse
    \/ MainRender
    \/ Tick
    \/ NetTick

----------------------------------------------------------------------------
(* The collectors one at a time: whichever collector acts first goes on,   *)
(* the others have not been scheduled yet                                  *)

\* A collector that has not acted since it was constructed.
WeatherAtRest == weather_op = "new"
NetAtRest == net_updates = 0
NotifAtRest == listener_pc = "spawn"
MediaAtRest == poll_reply = None
UtilAtRest ==
    /\ cpu_usage = 0 /\ memory_total = 0 /\ memory_used = 0
    /\ gpu_pc \in {"sleep", "not_spawned"} /\ gpu_fetched = None
TempAtRest == ~temp_updated

\* A machine with the NVIDIA tool installed.
NvidiaGpuEnvironment ==
    [nvidia_smi |-> TRUE, radeontop |-> FALSE, rocm_smi |-> FALSE,
     intel_gpu_top |-> FALSE, drm |-> None]

SoloWeatherSkip ==
    /\ NetAtRest /\ NotifAtRest /\ MediaAtRest /\ UtilAtRest /\ TempAtRest
    /\ WeatherUpdateSkip

SoloWeatherFetch ==
    /\ NetAtRest /\ NotifAtRest /\ MediaAtRest /\ UtilAtRest /\ TempAtRest
    /\ WeatherUpdateFetch

\* Counters of a machine whose loopback interface is silent.
SoloInterfaceReadings ==
    { nets \in InterfaceReadings : nets[2] = [received |-> 0, transmitted |-> 0] }

SoloNetUpdate ==
    /\ WeatherAtRest /\ NotifAtRest /\ MediaAtRest /\ UtilAtRest /\ TempAtRest
    /\ UNCHANGED notNetwork
    /\ \E nets \in SoloInterfaceReadings : NetSample(nets)

SoloListenerSpawn ==
    /\ WeatherAtRest /\ NetAtRest /\ MediaAtRest /\ UtilAtRest /\ TempAtRest
    /\ ListenerSpawn

SoloListenerReadCallLine ==
    /\ WeatherAtRest /\ NetAtRest /\ MediaAtRest /\ UtilAtRest /\ TempAtRest
    /\ ListenerReadCallLine

SoloListenerLockInsert ==
    /\ WeatherAtRest /\ NetAtRest /\ MediaAtRest /\ UtilAtRest /\ TempAtRest
    /\ ListenerLockInsert

SoloListenerTruncateUnlock ==
    /\ WeatherAtRest /\ NetAtRest /\ MediaAtRest /\ UtilAtRest /\ TempAtRest
    /\ ListenerTruncateUnlock

SoloMediaPollRequest ==
    /\ WeatherAtRest /\ NetAtRest /\ NotifAtRest /\ UtilAtRest /\ TempAtRest
    /\ MediaPollRequest

SoloMediaPollStore ==
    /\ WeatherAtRest /\ NetAtRest /\ NotifAtRest /\ UtilAtRest /\ TempAtRest
    /\ MediaPollStore

SoloUtilUpdate ==
    /\ WeatherAtRest /\ NetAtRest /\ NotifAtRest /\ MediaAtRest /\ TempAtRest
    /\ UtilUpdate

SoloGpuFetch ==
    /\ WeatherAtRest /\ NetAtRest /\ NotifAtRest /\ MediaAtRest /\ TempAtRest
    /\ GpuFetch

SoloGpuStore ==
    /\ WeatherAtRest /\ NetAtRest /\ NotifAtRest /\ MediaAtRest /\ TempAtRest
    /\ GpuStore

SoloTempUpdate ==
    /\ WeatherAtRest /\ NetAtRest /\ NotifAtRest /\ MediaAtRest /\ UtilAtRest
    /\ TempUpdate

NextSolo ==
    \/ SoloWeatherSkip
    \/ SoloWeatherFetch
    \/ SoloNetUpdate
    \/ SoloListenerSpawn
    \/ SoloListenerReadCallLine
    \/ SoloListenerLockInsert
    \/ SoloListenerTruncateUnlock
    \/ SoloMediaPollRequest
    \/ SoloMediaPollStore
    \/ SoloUtilUpdate
    \/ SoloGpuFetch
    \/ SoloGpuStore
    \/ SoloTempUpdate

----------------------------------------------------------------------------
(* The mutexes, lock by lock: who holds which while the threads go on *)

pollHistory == <<poll_playing, poll_reply, prev_active, ctl_between>>

\* media.rs:198  `cider_token.lock().unwrap().clone()`: the poller takes
\* the token's lock and copies the token.
PollerLockToken ==
    /\ UNCHANGED notMedia
    /\ poller_pc = "request"
    /\ token_lock = "free"
    /\ token_lock' = "poller"
    /\ poll_token' = Some(cider_token)
    /\ poller_pc' = "token_cloned"
    /\ UNCHANGED <<media_info, cider_token, media_lock, poll_result, pollHistory,
                   controlLocals>>

\* media.rs:198  the guard is a temporary: it is dropped at the end of the
\* statement, before try_cider_api is called.
PollerUnlockToken ==
    /\ UNCHANGED notMedia
    /\ poller_pc = "token_cloned"
    /\ token_lock' = "free"
    /\ poller_pc' = "call"
    /\ UNCHANGED <<media_info, cider_token, media_lock, poll_token, poll_result,
                   pollHistory, controlLocals>>

\* media.rs:199  try_cider_api(token): the HTTP requests to the endpoint.
PollerCallCider ==
    /\ UNCHANGED notMedia
    /\ poller_pc = "call"
    /\ \E reply \in NowPlayingReplies, playing_reply \in IsPlayingReplies :
          poll_result' = TryCiderApi(reply, playing_reply)
    /\ poll_token' = None
    /\ poller_pc' = "store"
    /\ UNCHANGED <<media_info, cider_token, media_lock, token_lock, pollHistory,
                   controlLocals>>

\* media.rs:200-201 and 204-205  `let mut stored = media_info.lock()`, then
\* `*stored = ...`.
PollerLockStore ==
    /\ UNCHANGED notMedia
    /\ poller_pc = "store"
    /\ media_lock = "free"
    /\ media_lock' = "poller"
    /\ media_info' = Overwrite(media_info, IF poll_result # None THEN poll_result[1]
                                            ELSE StoreNoMedia)
    /\ poll_result' = None
    /\ poller_pc' = "stored"
    /\ UNCHANGED <<cider_token, token_lock, poll_token, pollHistory, controlLocals>>

\* Mutant of PollerUnlockMedia: `stored` declared outside the if/else, so
\* that it lives until the end of the loop body.
PollerKeepsMediaLock ==
    /\ UNCHANGED notMedia
    /\ poller_pc = "stored"
    /\ poller_pc' = "sleep"
    /\ UNCHANGED <<media_info, cider_token, media_lock, token_lock, poll_token,
                   poll_result, pollHistory, controlLocals>>

\* media.rs:202 and 206  the block of `stored` ends: the guard is dropped.
PollerUnlockMedia ==
    /\ UNCHANGED notMedia
    /\ poller_pc = "stored"
    /\ media_lock' = "free"
    /\ poller_pc' = "sleep"
    /\ UNCHANGED <<media_info, cider_token, token_lock, poll_token, poll_result,
                   pollHistory, controlLocals>>

\* media.rs:209  std::thread::sleep of one second, then the next round.
PollerSleep ==
    /\ UNCHANGED notMedia
    /\ poller_pc = "sleep"
    /\ poller_pc' = "request"
    /\ UNCHANGED <<media_info, cider_token, media_lock, token_lock, poll_token,
                   poll_result, pollHistory, controlLocals>>

\* media.rs:372-374  get_media_info: the caller takes the lock and clones.
GetMediaInfoLock ==
    /\ UNCHANGED notMedia
    /\ ctl_pc = "idle"
    /\ media_lock = "free"
    /\ media_lock' = "reader"
    /\ UNCHANGED <<media_info, cider_token, token_lock, pollerLocals, poll_token,
                   controlLocals>>

\* media.rs:373  the temporary guard is dropped as the clone is returned.
GetMediaInfoUnlock ==
    /\ UNCHANGED notMedia
    /\ media_lock = "reader"
    /\ media_lock' = "free"
    /\ UNCHANGED <<media_info, cider_token, token_lock, pollerLocals, poll_token,
                   controlLocals>>

pollerAll == <<poller_pc, poll_token, poll_result, pollHistory>>

\* media.rs:493-495  seek_to_progress: `let info = self.media_info.lock()`
\* and the duration read under it.
SeekToProgressLock ==
    /\ UNCHANGED notMedia
    /\ ctl_pc = "idle"
    /\ media_lock = "free"
    /\ media_lock' = "caller"
    /\ \E progress \in Progresses :
          /\ seek_secs' = FMul(FDiv(media_info.duration, 1000), Clamp01(progress))
          /\ seek_progress' = Some(progress)
    /\ seek_duration' = Some(media_info.duration)
    /\ seek_request' = None
    /\ ctl_pc' = "progress_locked"
    /\ UNCHANGED <<media_info, cider_token, token_lock, ctl_ok, pollerAll>>

\* Mutant of SeekToProgressDrop: without `drop(info)` the guard lives to the
\* end of seek_to_progress, across the call of seek.
SeekToProgressNoDrop ==
    /\ UNCHANGED notMedia
    /\ ctl_pc = "progress_locked"
    /\ ctl_pc' = "seek_token"
    /\ UNCHANGED <<media_info, cider_token, media_lock, token_lock, ctl_ok, seek_secs,
                   seek_progress, seek_duration, seek_request, pollerAll>>

\* media.rs:496-499  `drop(info)`, then seek(target_seconds) is called.
SeekToProgressDrop ==
    /\ UNCHANGED notMedia
    /\ ctl_pc = "progress_locked"
    /\ media_lock' = "free"
    /\ ctl_pc' = "seek_token"
    /\ UNCHANGED <<media_info, cider_token, token_lock, ctl_ok, seek_secs,
                   seek_progress, seek_duration, seek_request, pollerAll>>

\* media.rs:457  seek: `self.cider_token.lock().unwrap().clone()`.
SeekLockToken ==
    /\ UNCHANGED notMedia
    /\ ctl_pc = "seek_token"
    /\ token_lock = "free"
    /\ token_lock' = "caller"
    /\ ctl_pc' = "seek_token_cloned"
    /\ UNCHANGED <<media_info, cider_token, media_lock, ctl_ok, seek_secs,
                   seek_progress, seek_duration, seek_request, pollerAll>>

\* media.rs:457  the temporary guard is dropped at the end of the statement.
SeekUnlockToken ==
    /\ UNCHANGED notMedia
    /\ ctl_pc = "seek_token_cloned"
    /\ token_lock' = "free"
    /\ ctl_pc' = "seek_request"
    /\ UNCHANGED <<media_info, cider_token, media_lock, ctl_ok, seek_secs,
                   seek_progress, seek_duration, seek_request, pollerAll>>

\* media.rs:459-473, 480-481  seek runs its request: answered with success
\* it goes on to the write, otherwise it returns false.
SeekRequest ==
    /\ UNCHANGED notMedia
    /\ ctl_pc = "seek_request"
    /\ \E ok \in BOOLEAN :
          IF ok
          THEN /\ ctl_ok' = TRUE
               /\ seek_request' = Some(AsU64(seek_secs))
               /\ ctl_pc' = "seek_write"
               /\ UNCHANGED <<seek_secs, seek_progress, seek_duration>>
          ELSE /\ ctl_ok' = FALSE
               /\ seek_request' = None
               /\ ctl_pc' = "idle"
               /\ seek_secs' = <<0, 1>>
               /\ seek_progress' = None
               /\ seek_duration' = None
    /\ UNCHANGED <<media_info, cider_token, media_lock, token_lock, pollerAll>>

\* media.rs:475-476  `let mut info = self.media_info.lock()` and the
\* position written under it.
SeekLockWrite ==
    /\ UNCHANGED notMedia
    /\ ctl_pc = "seek_write"
    /\ media_lock = "free"
    /\ media_lock' = "caller"
    /\ media_info' = [media_info EXCEPT !.position = AsU64(FMul(seek_secs, <<1000, 1>>))]
    /\ ctl_pc' = "seek_written"
    /\ UNCHANGED <<cider_token, token_lock, ctl_ok, seek_secs, seek_progress,
                   seek_duration, seek_request, pollerAll>>

\* media.rs:477  `return true`: the guard is dropped and the call is over.
SeekUnlockMedia ==
    /\ UNCHANGED notMedia
    /\ ctl_pc = "seek_written"
    /\ media_lock' = "free"
    /\ ctl_pc' = "idle"
    /\ ctl_ok' = FALSE
    /\ seek_secs' = <<0, 1>>
    /\ seek_progress' = None
    /\ seek_duration' = None
    /\ seek_request' = None
    /\ UNCHANGED <<media_info, cider_token, token_lock, pollerAll>>

utilSampled == <<cpu_usage, memory_usage, memory_total, memory_used, mem_divisor,
                 gpu_vendor, gpu_env, gpu_last_value, gpu_cycle_empty>>

\* utilization.rs:122-123  `*gpu_usage_clone.lock().unwrap() = usage`, for
\* a fetch that returned a value.
GpuLockStore ==
    /\ UNCHANGED notUtil
    /\ gpu_pc = "store"
    /\ gpu_fetched # None
    /\ gpu_lock = "free"
    /\ gpu_lock' = "gpu"
    /\ gpu_usage' = GpuStored(gpu_usage, gpu_fetched)
    /\ gpu_fetched' = None
    /\ gpu_pc' = "stored"
    /\ UNCHANGED utilSampled

\* utilization.rs:123  the temporary guard is dropped at the end of the
\* assignment; the thread goes back to its sleep (utilization.rs:113).
GpuUnlock ==
    /\ UNCHANGED notUtil
    /\ gpu_pc = "stored"
    /\ gpu_lock' = "free"
    /\ gpu_pc' = "sleep"
    /\ UNCHANGED <<gpu_usage, gpu_fetched, utilSampled>>

\* utilization.rs:122-124  a fetch without a value: the lock is not taken.
GpuNoValue ==
    /\ UNCHANGED notUtil
    /\ gpu_pc = "store"
    /\ gpu_fetched = None
    /\ gpu_pc' = "sleep"
    /\ UNCHANGED <<gpu_usage, gpu_lock, gpu_fetched, utilSampled>>

\* utilization.rs:166-168  get_gpu_usage: the caller takes the lock and
\* copies the value.
GetGpuUsageLock ==
    /\ UNCHANGED notUtil
    /\ gpu_lock = "free"
    /\ gpu_lock' = "reader"
    /\ UNCHANGED <<gpu_usage, gpu_pc, gpu_fetched, utilSampled>>

\* utilization.rs:167  the temporary guard is dropped as the value is returned.
GetGpuUsageUnlock ==
    /\ UNCHANGED notUtil
    /\ gpu_lock = "reader"
    /\ gpu_lock' = "free"
    /\ UNCHANGED <<gpu_usage, gpu_pc, gpu_fetched, utilSampled>>

\* The three monitors are objects of their own: each is followed while the
\* other two are as constructed.
OnlyMediaRuns == NotifNew(1) /\ UtilNew(NvidiaGpuEnvironment)
OnlyNotifRuns == MediaNew(None) /\ UtilNew(NvidiaGpuEnvironment)
OnlyUtilRuns == MediaNew(None) /\ NotifNew(1)

MediaPollerLockToken == OnlyMediaRuns /\ PollerLockToken
MediaPollerUnlockToken == OnlyMediaRuns /\ PollerUnlockToken
MediaPollerCallCider == OnlyMediaRuns /\ PollerCallCider
MediaPollerLockStore == OnlyMediaRuns /\ PollerLockStore
MediaPollerUnlockMedia == OnlyMediaRuns /\ PollerUnlockMedia
MediaPollerSleep == OnlyMediaRuns /\ PollerSleep
MediaGetMediaInfoLock == OnlyMediaRuns /\ GetMediaInfoLock
MediaGetMediaInfoUnlock == OnlyMediaRuns /\ GetMediaInfoUnlock
MediaSetCiderToken == OnlyMediaRuns /\ SetCiderToken
MediaSeekToProgressLock == OnlyMediaRuns /\ SeekToProgressLock
MediaSeekToProgressDrop == OnlyMediaRuns /\ SeekToProgressDrop
MediaSeekLockToken == OnlyMediaRuns /\ SeekLockToken
MediaSeekUnlockToken == OnlyMediaRuns /\ SeekUnlockToken
MediaSeekRequest == OnlyMediaRuns /\ SeekRequest
MediaSeekLockWrite == OnlyMediaRuns /\ SeekLockWrite
MediaSeekUnlockMedia == OnlyMediaRuns /\ SeekUnlockMedia
NotifListenerSpawn == OnlyNotifRuns /\ ListenerSpawn
NotifListenerReadCallLine == OnlyNotifRuns /\ ListenerReadCallLine
NotifListenerLockInsert == OnlyNotifRuns /\ ListenerLockInsert
NotifListenerTruncateUnlock == OnlyNotifRuns /\ ListenerTruncateUnlock
NotifGetNotifications == OnlyNotifRuns /\ GetNotifications
UtilGpuFetch == OnlyUtilRuns /\ GpuFetch
UtilGpuLockStore == OnlyUtilRuns /\ GpuLockStore
UtilGpuUnlock == OnlyUtilRuns /\ GpuUnlock
UtilGpuNoValue == OnlyUtilRuns /\ GpuNoValue
UtilGetGpuUsageLock == OnlyUtilRuns /\ GetGpuUsageLock
UtilGetGpuUsageUnlock == OnlyUtilRuns /\ GetGpuUsageUnlock

NextLocks ==
    \/ MediaPollerLockToken
    \/ MediaPollerUnlockToken
    \/ MediaPollerCallCider
    \/ MediaPollerLockStore
    \/ MediaPollerUnlockMedia
    \/ MediaPollerSleep
    \/ MediaGetMediaInfoLock
    \/ MediaGetMediaInfoUnlock
    \/ MediaSetCiderToken
    \/ MediaSeekToProgressLock
    \/ MediaSeekToProgressDrop
    \/ MediaSeekLockToken
    \/ MediaSeekUnlockToken
    \/ MediaSeekRequest
    \/ MediaSeekLockWrite
    \/ MediaSeekUnlockMedia
    \/ NotifListenerSpawn
    \/ NotifListenerReadCallLine
    \/ NotifListenerLockInsert
    \/ NotifListenerTruncateUnlock
    \/ NotifGetNotifications
    \/ UtilGpuFetch
    \/ UtilGpuLockStore
    \/ UtilGpuUnlock
    \/ UtilGpuNoValue
    \/ UtilGetGpuUsageLock
    \/ UtilGetGpuUsageUnlock

----------------------------------------------------------------------------
(* Specifications: one per collector; the others stay as constructed *)

vars == <<weatherVars, netVars, notifVars, mediaVars, utilVars, widgetVars, tempVars,
          mainVars>>

InitWeather ==
    /\ \E key \in ApiKeys, loc \in Locations : WeatherNew(key, loc)
    /\ NetInit
    /\ NotifNew(0)
    /\ MediaNew(None)
    /\ UtilNew(NoGpuEnvironment)
    /\ WidgetInit(DefaultWidgetConfig, FALSE)
    /\ TempNew(<<>>)
    /\ MainNew(DefaultMainConfig)

InitNetwork ==
    /\ WeatherNew(<<>>, <<>>)
    /\ NetInit
    /\ NotifNew(0)
    /\ MediaNew(None)
    /\ UtilNew(NoGpuEnvironment)
    /\ WidgetInit(DefaultWidgetConfig, FALSE)
    /\ TempNew(<<>>)
    /\ MainNew(DefaultMainConfig)

InitNotif ==
    /\ WeatherNew(<<>>, <<>>)
    /\ NetInit
    /\ \E max \in MaxNotificationsChoices : NotifNew(max)
    /\ MediaNew(None)
    /\ UtilNew(NoGpuEnvironment)
    /\ WidgetInit(DefaultWidgetConfig, FALSE)
    /\ TempNew(<<>>)
    /\ MainNew(DefaultMainConfig)

SpecWeather == InitWeather /\ [][NextWeather]_vars

SpecNetwork == InitNetwork /\ [][NextNetwork]_vars

SpecNotif == InitNotif /\ [][NextNotif]_vars
SpecNotifClock == InitNotif /\ [][NextNotifClock]_vars

SpecNotifParse == InitNotif /\ [][NextNotifParse]_vars

InitMedia ==
    /\ WeatherNew(<<>>, <<>>)
    /\ NetInit
    /\ NotifNew(0)
    /\ \E api_token \in CiderTokens : MediaNew(api_token)
    /\ UtilNew(NoGpuEnvironment)
    /\ WidgetInit(DefaultWidgetConfig, FALSE)
    /\ TempNew(<<>>)
    /\ MainNew(DefaultMainConfig)

SpecMedia == InitMedia /\ [][NextMedia]_vars

InitUtil ==
    /\ WeatherNew(<<>>, <<>>)
    /\ NetInit
    /\ NotifNew(0)
    /\ MediaNew(None)
    /\ \E env \in GpuEnvironments : UtilNew(env)
    /\ WidgetInit(DefaultWidgetConfig, FALSE)
    /\ TempNew(<<>>)
    /\ MainNew(DefaultMainConfig)

SpecUtil == InitUtil /\ [][NextUtil]_vars

InitWidget ==
    /\ WeatherNew(<<>>, <<>>)
    /\ NetInit
    /\ NotifNew(0)
    /\ MediaNew(None)
    /\ UtilNew(NoGpuEnvironment)
    /\ \E config \in WidgetConfigs, checks \in BOOLEAN : WidgetInit(config, checks)
    /\ TempNew(<<>>)
    /\ MainNew(DefaultMainConfig)

InitTemp ==
    /\ WeatherNew(<<>>, <<>>)
    /\ NetInit
    /\ NotifNew(0)
    /\ MediaNew(None)
    /\ UtilNew(NoGpuEnvironment)
    /\ WidgetInit(DefaultWidgetConfig, FALSE)
    /\ \E list \in ComponentLists : TempNew(list)
    /\ MainNew(DefaultMainConfig)

SpecTemp == InitTemp /\ [][NextTemp]_vars

\* The same monitor, with a refresh that may change the list of sensors.
InitTempRelist ==
    /\ WeatherNew(<<>>, <<>>)
    /\ NetInit
    /\ NotifNew(0)
    /\ MediaNew(None)
    /\ UtilNew(NoGpuEnvironment)
    /\ WidgetInit(DefaultWidgetConfig, FALSE)
    /\ \E list \in RelistedLists : TempNew(list)
    /\ MainNew(DefaultMainConfig)

SpecTempRelist == InitTempRelist /\ [][NextTempRelist]_vars

InitMain ==
    /\ WeatherNew(<<"k">>, <<"L">>)
    /\ NetInit
    /\ NotifNew(0)
    /\ MediaNew(None)
    /\ UtilNew(NoGpuEnvironment)
    /\ WidgetInit(DefaultWidgetConfig, FALSE)
    /\ TempNew(MainComponents)
    /\ \E config \in MainConfigs : MainNew(config)

SpecMain == InitMain /\ [][NextMain]_vars

InitSolo ==
    /\ WeatherNew(<<"k">>, <<"L">>)
    /\ NetInit
    /\ NotifNew(1)
    /\ MediaNew(None)
    /\ UtilNew(NvidiaGpuEnvironment)
    /\ WidgetInit(DefaultWidgetConfig, FALSE)
    /\ TempNew(MainComponents)
    /\ MainNew(DefaultMainConfig)

SpecSolo == InitSolo /\ [][NextSolo]_vars

\* The three monitors with a background thread, and their mutexes.
InitLocks ==
    /\ WeatherNew(<<>>, <<>>)
    /\ NetInit
    /\ NotifNew(1)
    /\ MediaNew(None)
    /\ UtilNew(NvidiaGpuEnvironment)
    /\ WidgetInit(DefaultWidgetConfig, FALSE)
    /\ TempNew(<<>>)
    /\ MainNew(DefaultMainConfig)

SpecLocks == InitLocks /\ [][NextLocks]_vars

SpecWidget == InitWidget /\ [][NextWidget]_vars

SpecSamples == InitWidget /\ [][NextSamples]_vars

----------------------------------------------------------------------------
(* Properties of WeatherMonitor, checked under SpecWeather *)

\* C1: at most one outbound fetch happens within any 600-second window,
\* whatever the outcome of the earlier fetch: any two consecutive fetches
\* start at least 600 seconds apart.
C1_AtMostOneFetchPerWindow ==
    fetch_gap = None \/ fetch_gap[1] >= MinRefetchSecs

\* C2: weather_data is the record returned by the most recent successful
\* fetch, None before any success; a failed fetch and a skipped update
\* leave it unchanged.
C2_DataIsLastSuccessfulFetch == weather_data = last_success

\* C2 witness: a fetch failed after an earlier one succeeded, and the
\* earlier record is still there.
C2_FailedFetchKeptRecord ==
    weather_op = "fetch_err" /\ weather_data # None /\ fetch_count >= 2

----------------------------------------------------------------------------
(* Properties of NetworkMonitor, checked under SpecNetwork *)

\* After an update: the summed counters that update read.
ReadRx == TotalRx(net_read)
ReadTx == TotalTx(net_read)

\* C3: for each direction, when a baseline from a previous update exists
\* (the stored previous value is set), the current sum is >= the previous
\* one and elapsed > 0, the published rate is (current - previous) / elapsed.
C3_RateIsDeltaOverElapsed ==
    (net_updates >= 2 /\ net_elapsed > 0) =>
        /\ (net_prev_rx > 0 /\ ReadRx >= net_prev_rx) =>
              network_rx_rate = FDiv(ReadRx - net_prev_rx, net_elapsed)
        /\ (net_prev_tx > 0 /\ ReadTx >= net_prev_tx) =>
              network_tx_rate = FDiv(ReadTx - net_prev_tx, net_elapsed)

\* C4: when a direction's current sum is below its stored previous value,
\* that direction's rate is 0 and the current value is the new baseline.
C4_ResetGivesZeroAndNewBaseline ==
    net_updates >= 1 =>
        /\ ReadRx < net_prev_rx =>
              network_rx_rate = ZeroRate /\ network_rx_bytes = ReadRx
        /\ ReadTx < net_prev_tx =>
              network_tx_rate = ZeroRate /\ network_tx_bytes = ReadTx

\* C4 witness: the TX counter was reset while the RX counter went up.
C4_TxResetSeen ==
    /\ net_updates >= 2
    /\ net_elapsed > 0
    /\ ReadTx < net_prev_tx
    /\ net_prev_rx > 0
    /\ ReadRx > net_prev_rx

\* C5: the first update publishes rate 0 for RX and TX whatever it reads,
\* and stores what it read as the baseline.
C5_FirstUpdatePublishesZero ==
    net_updates = 1 =>
        /\ network_rx_rate = ZeroRate
        /\ network_tx_rate = ZeroRate
        /\ network_rx_bytes = ReadRx
        /\ network_tx_bytes = ReadTx

\* C5 witness: a first update that read non-zero counters after some time.
C5_FirstUpdateReadTraffic ==
    net_updates = 1 /\ net_elapsed > 0 /\ ReadRx > 0 /\ ReadTx > 0

\* The single-counter rate sampler of one direction: a rate only from a set
\* baseline that the counter did not fall below, otherwise 0.
SamplerRate(previous, current, elapsed) ==
    IF previous > 0 /\ current >= previous
    THEN FDiv(current - previous, elapsed)
    ELSE ZeroRate

\* C6: RX and TX are two independent samplers: each published rate is the
\* one a single-counter sampler gives from that direction's own history
\* and the elapsed time (stated for elapsed > 0).
C6_DirectionsAreIndependent ==
    (net_updates >= 1 /\ net_elapsed > 0) =>
        /\ network_rx_rate = SamplerRate(net_prev_rx, ReadRx, net_elapsed)
        /\ network_tx_rate = SamplerRate(net_prev_tx, ReadTx, net_elapsed)

----------------------------------------------------------------------------
(* Properties of the notification listener *)

\* A quoted STRING line of the stream: STRING "value"; a line that contains
\* Member=Notify is a header line whatever else it holds.
IsQuotedStringLine(line) ==
    /\ ~IsHeaderLine(line)
    /\ \E v \in FieldValues : line = StringLine(v)

QuotedValue(line) == CHOOSE v \in FieldValues : line = StringLine(v)

\* The quoted STRING lines read since the last header line, in order.
CallFields == SelectSeq(call_lines[1], IsQuotedStringLine)

\* The record inserted last.
LastEmitted == emit_log[1]

\* The listener is between two lines (not inside its critical section).
ListenerBetweenLines == listener_pc \notin {"lock", "truncate"}

\* C7 (SpecNotifParse): a header line followed by four quoted STRING lines
\* f0, f1, f2, f3 makes the listener insert exactly one notification, with
\* app_name = f0 (when f0 is not empty), summary = f2 and body = f3, when f2
\* is not empty, and nothing when f2 is empty; f1 is not retained.
C7_NotifyCallEmitsOneNotification ==
    (ListenerBetweenLines /\ call_lines # None /\ Len(CallFields) >= 4) =>
        LET f0 == QuotedValue(CallFields[1])
            f2 == QuotedValue(CallFields[3])
            f3 == QuotedValue(CallFields[4])
        IN  IF f2 = <<>>
            THEN call_emits = 0
            ELSE /\ call_emits = 1
                 /\ LastEmitted.summary = f2
                 /\ LastEmitted.body = f3
                 /\ f0 # <<>> => LastEmitted.app_name = f0
                 /\ DOMAIN LastEmitted =
                       {"app_name", "summary", "body", "timestamp"}

\* C7 witness: the call of the example (a header line, then STRING "a",
\* STRING "", STRING "a", STRING "a") was read and one notification with
\* these fields was inserted.
C7_ExampleCallCaptured ==
    /\ listener_pc = "read"
    /\ call_lines # None
    /\ Len(call_lines[1]) = 4
    /\ Len(CallFields) = 4
    /\ QuotedValue(CallFields[1]) = <<"a">>
    /\ QuotedValue(CallFields[2]) = <<>>
    /\ QuotedValue(CallFields[3]) = <<"a">>
    /\ QuotedValue(CallFields[4]) = <<"a">>
    /\ call_emits = 1
    /\ LastEmitted.app_name = <<"a">>

\* C8 (SpecNotifParse): an empty captured app name with a non-empty summary
\* gives app_name "System"; no notification in the list has an empty
\* app_name.
C8_EmptyAppNameBecomesSystem ==
    /\ \A i \in 1..Len(notifications) : notifications[i].app_name # <<>>
    /\ (ListenerBetweenLines /\ call_lines # None /\ Len(CallFields) >= 4
        /\ QuotedValue(CallFields[1]) = <<>>
        /\ QuotedValue(CallFields[3]) # <<>>) =>
           (emit_log # <<>> /\ LastEmitted.app_name = SystemLabel)

\* C8 witness: a call with an empty app name was captured and is in the list.
C8_SystemNotificationListed ==
    /\ listener_pc = "read"
    /\ call_lines # None
    /\ Len(CallFields) = 4
    /\ QuotedValue(CallFields[1]) = <<>>
    /\ notifications # <<>>
    /\ notifications[1].app_name = SystemLabel

\* The first n elements of a sequence.
FirstN(seq, n) == IF Len(seq) > n THEN SubSeq(seq, 1, n) ELSE seq

\* C9 (SpecNotif): every notification is inserted at index 0 and the list is
\* truncated from the tail: with no removal so far, the list is the
\* max_notifications most recent insertions, newest first; after N+1
\* insertions the oldest is absent and the length is N.
C9_NewestFirstTailTruncated ==
    (~removed /\ notif_lock = "free") =>
        notifications = FirstN(emit_log, max_notifications)

\* C9 witness: N+1 = 3 insertions into a list capped at N = 2, the newest
\* later than the oldest, and no removal.
C9_CapPlusOneInserted ==
    /\ ~removed
    /\ notif_lock = "free"
    /\ max_notifications = 2
    /\ Len(emit_log) = 3
    /\ Len(notifications) = 2
    /\ emit_log[1].timestamp > emit_log[3].timestamp

\* C10 (SpecNotif): in every state another thread can observe (the listener
\* is not inside its critical section), under any interleaving with
\* get_notifications, clear, clear_app and remove_notification, the list is
\* no longer than max_notifications; with max_notifications = 0 it is empty.
C10_LengthWithinCap ==
    notif_lock = "free" => Len(notifications) <= max_notifications

\* C10 witness: a reader looked at a list capped at 0 after an insertion.
C10_ReaderSawEmptyList ==
    /\ max_notifications = 0
    /\ call_emits = 1
    /\ notif_lock = "free"
    /\ listener_pc = "read"
    /\ notif_op = "get_notifications"

----------------------------------------------------------------------------
(* Properties of MediaMonitor, checked under SpecMedia *)

\* The poller's store step: the result of the last request goes into the
\* shared MediaInfo.
StoreStep == poller_pc = "store" /\ poller_pc' = "request"

\* The name key is absent from a body, or the value after it is empty.
NameAbsentOrEmpty(body) ==
    \/ \A i \in 1..Len(body) : body[i] # NameKey
    \/ \E i \in 1..Len(body) - 1 :
          /\ body[i] = NameKey
          /\ \A j \in 1..i - 1 : body[j] # NameKey
          /\ body[i + 1] = Q

\* C11: when the title extracted from a now-playing response is empty (the
\* name key is absent or its value is empty), the poll stores the default
\* MediaInfo and is_active() is false, whatever other fields the response
\* holds.
C11_EmptyTitleYieldsNoMedia ==
    [][(/\ StoreStep
        /\ poll_reply # None
        /\ poll_reply[1].kind = "body"
        /\ NameAbsentOrEmpty(poll_reply[1].body))
       => (media_info' = MediaInfoDefault /\ ~IsActive(media_info'))]_vars

\* C11 witness: a response with artist, album, duration and position but an
\* empty name was stored over an active track.
C11_UntitledResponseStored ==
    /\ poller_pc = "request"
    /\ poll_reply # None
    /\ poll_reply[1].kind = "body"
    /\ JsonContains(poll_reply[1].body, StatusOkText)
    /\ JsonContains(poll_reply[1].body, ArtistKey)
    /\ JsonContains(poll_reply[1].body, DurationKey)
    /\ NameAbsentOrEmpty(poll_reply[1].body)
    /\ prev_active
    /\ media_info = MediaInfoDefault

\* C12: after every poll whose now-playing request could not be run or
\* returned a non-success result, the shared MediaInfo is the default,
\* whatever it held before.
C12_FailedPollResetsMedia ==
    [][(/\ StoreStep
        /\ poll_reply # None
        /\ poll_reply[1].kind \in {"spawn_failed", "exit_failure"})
       => (/\ media_info' = MediaInfoDefault
           /\ media_info'.status = "Stopped"
           /\ ~IsActive(media_info'))]_vars

\* C12 witness: a failed request was stored over an active track.
C12_TrackDroppedAfterFailure ==
    /\ poller_pc = "request"
    /\ poll_reply # None
    /\ poll_reply[1].kind = "exit_failure"
    /\ prev_active
    /\ media_info = MediaInfoDefault

\* floor(duration_ms / 1000 * clamp(p)) for a progress p = <<n, m>>, m > 0.
ClampedSeconds(duration_ms, p) ==
    LET n == IF p[1] < 0 THEN 0 ELSE IF p[1] > p[2] THEN p[2] ELSE p[1]
    IN  (duration_ms * n) \div (1000 * p[2])

\* C13: seek_to_progress(p) requests a seek to the whole number of seconds
\* floor(duration_ms / 1000 * clamp(p)) of the duration it read; p = 0.5 of
\* 200000 ms requests 100 s; for every p the requested position is >= 0 and
\* not beyond the duration.
C13_SeekToProgressClamps ==
    (ctl_pc = "seek_apply" /\ seek_progress # None) =>
        LET p == seek_progress[1]
            d == seek_duration[1]
            requested == seek_request[1]
        IN  /\ seek_request # None
            /\ p[2] # 0 => requested = ClampedSeconds(d, p)
            /\ (p = <<1, 2>> /\ d = 200000) => requested = 100
            /\ requested >= 0
            /\ requested * 1000 <= d

\* C13 witness: seek_to_progress(0.5) on a track of 200000 ms asked for 100 s.
C13_HalfOfTrackRequested ==
    /\ ctl_pc = "seek_apply"
    /\ seek_progress = Some(<<1, 2>>)
    /\ seek_duration = Some(200000)
    /\ seek_request = Some(100)

\* C18: a control operation (play_pause, next, previous, seek,
\* seek_to_progress) changes the shared MediaInfo only when its command
\* dispatch succeeded; after a failed dispatch it leaves it unchanged.
C18_MutationOnlyAfterSuccessfulDispatch ==
    [][(/\ ctl_pc \in {"play_pause", "next", "previous", "seek_apply"}
        /\ ctl_pc' = "idle"
        /\ ~ctl_ok)
       => media_info' = media_info]_vars

----------------------------------------------------------------------------
(* Properties of UtilizationMonitor, checked under SpecUtil *)

C16_MemoryUsageGuarded ==
    /\ memory_usage = (IF memory_total = 0 THEN <<0, 1>>
                       ELSE FMul(FDiv(memory_used, memory_total), <<100, 1>>))
    /\ mem_divisor # Some(0)
    /\ w_memory_usage = (IF w_memory_total = 0 THEN <<0, 1>>
                         ELSE FMul(FDiv(w_memory_used, w_memory_total), <<100, 1>>))
    /\ w_mem_divisor # Some(0)

\* Both samplers have sampled, the last sample of each found no memory at
\* all.
C16_ZeroTotalSampled ==
    /\ cpu_usage = 50 /\ memory_total = 0 /\ memory_usage = <<0, 1>>
    /\ w_cpu_usage = 50 /\ w_memory_total = 0 /\ w_memory_usage = <<0, 1>>

\* The sensors of the list whose lowercased label contains one of the patterns.
MatchingSensors(list, patterns) ==
    { i \in 1..Len(list) :
        \E pat \in patterns :
          \E k \in 1..Len(list[i].label) :
            /\ k + Len(pat) - 1 <= Len(list[i].label)
            /\ \A j \in 1..Len(pat) : ToLowerChar(list[i].label[k + j - 1]) = pat[j] }

\* The temperature of the first of the given sensors.
FirstOf(list, matching) ==
    list[CHOOSE i \in matching : \A j \in matching : i <= j].temperature

\* C15: TemperatureMonitor::update sets cpu_temp to the temperature of the
\* first sensor, in enumeration order, whose lowercased label contains cpu,
\* package, core, tctl or tdie, and gpu_temp to that of the first whose label
\* contains gpu, nvidia, amd, radeon or edge; later matches and sensors that
\* match nothing change neither, and each scan is independent of the other.
C15_FirstMatchingSensorWins ==
    temp_updated =>
      /\ MatchingSensors(components, CpuPatterns) # {} =>
            cpu_temp = FirstOf(components, MatchingSensors(components, CpuPatterns))
      /\ MatchingSensors(components, GpuPatterns) # {} =>
            gpu_temp = FirstOf(components, MatchingSensors(components, GpuPatterns))

\* An update has read three sensors: one matching nothing, one matching both
\* pattern sets, and a later CPU sensor with another temperature.
C15_LaterMatchIgnored ==
    /\ temp_updated
    /\ Len(components) = 3
    /\ MatchingSensors(components, CpuPatterns) = {2, 3}
    /\ MatchingSensors(components, GpuPatterns) = {2}
    /\ components[2].temperature # components[3].temperature
    /\ cpu_temp = components[2].temperature
    /\ gpu_temp = components[2].temperature

\* C17: no collector's slow or failing external call halts or delays another
\* collector: while the weather fetch is in progress or blocked, the
\* utilization, temperature and network collectors can still perform their
\* ticks and the renderer can still read the snapshot.
C17_FetchDelaysNoOtherCollector ==
    main_pc = "fetching" =>
      /\ ENABLED MainUtilization \/ ENABLED MainStatsDue
      /\ ENABLED MainTemperature \/ ENABLED MainStatsDue
      /\ ENABLED MainNetwork \/ ENABLED MainStatsDue
      /\ ENABLED MainRender

\* The steps of the listener thread.
ListenerStep ==
    \/ ListenerSpawn
    \/ ListenerSpawnFail
    \/ ListenerReadLine
    \/ ListenerReadError
    \/ ListenerEndOfStream
    \/ ListenerLockInsert
    \/ ListenerTruncateUnlock

\* The bus monitor could not be started.
SpawnFailed == listener_pc = "spawn_failed"

\* C19: if the bus-monitor subprocess cannot be started, the listener thread
\* reports the failure once and terminates: it never inserts into the list
\* afterwards, get_notifications, clear, clear_app and remove_notification
\* still complete normally, and no other collector's behaviour changes.
C19_SpawnFailureEndsListenerOnly ==
    /\ [](listener_errors > 0 => ~ENABLED ListenerStep)
    /\ [](SpawnFailed =>
            /\ listener_errors = 1
            /\ emit_log = <<>> /\ notifications = <<>>
            /\ notif_lock = "free"
            /\ ENABLED GetNotifications /\ ENABLED Clear
            /\ ENABLED ClearApp /\ ENABLED RemoveNotification)
    /\ [][(ListenerSpawnFail \/ SpawnFailed) => UNCHANGED notNotif]_vars

\* After the failed start the main thread has cleared one application's
\* notifications.
C19_ListUsedAfterSpawnFailure ==
    /\ SpawnFailed
    /\ listener_errors = 1
    /\ notif_op = "clear_app"

\* The fields of the snapshot, collector by collector.
UtilSlice == <<cpu_usage, memory_usage, memory_total, memory_used>>
GpuSlice == <<gpu_usage>>
TempSlice == <<cpu_temp, gpu_temp>>
NetSlice == <<network_rx_bytes, network_tx_bytes, network_rx_rate, network_tx_rate,
              net_last_update>>
MediaSlice == <<media_info>>
NotifSlice == <<notifications>>
WeatherSlice == <<weather_data, weather_last_update>>

\* The number of slices a step changes.
SlicesChanged ==
    Cardinality({ i \in 1..7 :
        \/ i = 1 /\ UtilSlice' # UtilSlice
        \/ i = 2 /\ GpuSlice' # GpuSlice
        \/ i = 3 /\ TempSlice' # TempSlice
        \/ i = 4 /\ NetSlice' # NetSlice
        \/ i = 5 /\ MediaSlice' # MediaSlice
        \/ i = 6 /\ NotifSlice' # NotifSlice
        \/ i = 7 /\ WeatherSlice' # WeatherSlice })

\* C20: every collector action writes only its own slice of the snapshot:
\* UtilizationMonitor::update only the processor and memory fields, the GPU
\* thread only gpu_usage, TemperatureMonitor::update only cpu_temp and
\* gpu_temp, NetworkMonitor::update only the network counters, rates and
\* timestamp, the media poller only media_info, the notification listener
\* only the notification list, WeatherMonitor::update only weather_data and
\* last_update; each leaves every other collector's fields unchanged.
C20_ActionsWriteOwnSliceOnly ==
    [][ /\ SlicesChanged <= 1
        /\ UtilUpdate =>
              UNCHANGED <<GpuSlice, TempSlice, NetSlice, MediaSlice, NotifSlice, WeatherSlice>>
        /\ (GpuFetch \/ GpuStore) =>
              UNCHANGED <<UtilSlice, TempSlice, NetSlice, MediaSlice, NotifSlice, WeatherSlice>>
        /\ TempUpdate =>
              UNCHANGED <<UtilSlice, GpuSlice, NetSlice, MediaSlice, NotifSlice, WeatherSlice>>
        /\ NetUpdate =>
              UNCHANGED <<UtilSlice, GpuSlice, TempSlice, MediaSlice, NotifSlice, WeatherSlice>>
        /\ (MediaPollRequest \/ MediaPollStore) =>
              UNCHANGED <<UtilSlice, GpuSlice, TempSlice, NetSlice, NotifSlice, WeatherSlice,
                          cider_token>>
        /\ (ListenerSpawn \/ ListenerReadCallLine \/ ListenerLockInsert
                          \/ ListenerTruncateUnlock) =>
              UNCHANGED <<UtilSlice, GpuSlice, TempSlice, NetSlice, MediaSlice, WeatherSlice>>
        /\ (WeatherUpdateSkip \/ WeatherUpdateFetch) =>
              UNCHANGED <<UtilSlice, GpuSlice, TempSlice, NetSlice, MediaSlice, NotifSlice,
                          api_key, location>>
      ]_vars

\* Every slice has been written by its collector, each in a run of its own:
\* here the temperatures, with all other slices as they were constructed.
C20_TemperatureWrittenAlone ==
    /\ temp_updated /\ cpu_temp = 70
    /\ UtilAtRest /\ gpu_usage = ZeroRate /\ NetAtRest /\ network_rx_bytes = 0
    /\ media_info = MediaInfoDefault /\ notifications = <<>> /\ weather_data = None

----------------------------------------------------------------------------
(* WeatherMonitor::update and credentials that are empty once unquoted *)

\* C30: update() performs no outbound fetch whenever the API key or the
\* location is empty after its leading and trailing quote characters are
\* stripped: every request that was sent carried a non-empty location and
\* a non-empty key.
C30_NoFetchWithEmptyCredentials ==
    last_request # None =>
        /\ last_request[1][1] # <<>>
        /\ last_request[1][2] # <<>>

----------------------------------------------------------------------------
(* The poller's write and the control calls, checked under SpecMedia *)

\* What a poll leaves to be stored: the record it parsed, or the default
\* record when it produced none.
PollOutcome ==
    IF poll_result # None THEN poll_result[1] ELSE MediaInfoDefault

\* C28: every completed poll overwrites the whole shared MediaInfo: right
\* after the poller's write the record, and so its status and its position,
\* is that of the poll's result, or the default record when the poll
\* failed, whatever control calls wrote before, one that ran between the
\* poll's request and its write included.
C28_PollOverwritesWholeRecord ==
    [][StoreStep =>
         /\ media_info'.status = PollOutcome.status
         /\ media_info'.position = PollOutcome.position
         /\ media_info' = PollOutcome]_vars

\* C28 witness: a control call changed the record after the poll's request,
\* and the store that followed left the status and position of the poll's
\* playing track.
C28_ControlWriteOverwritten ==
    /\ poller_pc = "request"
    /\ ctl_between
    /\ poll_reply # None
    /\ poll_reply[1].kind = "body"
    /\ media_info.title # <<>>
    /\ media_info.status = "Playing"
    /\ media_info.position = 50000

\* The is-playing request could not be run or did not exit with success.
QueryFailed(playing_reply) == playing_reply.kind # "body"

\* The is-playing request succeeded and its body reports playing.
ReportsPlaying(playing_reply) ==
    /\ playing_reply.kind = "body"
    /\ \E i \in 1..Len(playing_reply.body) : playing_reply.body[i] = IsPlayingTrueText

\* C29: after a poll that produced a track, the stored status is Playing
\* when the is-playing query failed or reported playing, Paused when the
\* query succeeded without reporting playing, and never Stopped.
C29_StatusFollowsIsPlayingQuery ==
    [][(StoreStep /\ poll_result # None) =>
         /\ poll_playing # None
         /\ media_info'.status # "Stopped"
         /\ (QueryFailed(poll_playing[1]) \/ ReportsPlaying(poll_playing[1]))
               => media_info'.status = "Playing"
         /\ (~QueryFailed(poll_playing[1]) /\ ~ReportsPlaying(poll_playing[1]))
               => media_info'.status = "Paused"]_vars

\* C29 witness: a track was stored as Playing after its is-playing query
\* failed.
C29_PlayingAfterFailedQuery ==
    /\ poller_pc = "request"
    /\ poll_playing # None
    /\ QueryFailed(poll_playing[1])
    /\ media_info.title # <<>>
    /\ media_info.status = "Playing"
    /\ ~ctl_between

----------------------------------------------------------------------------
(* The listener's parser, checked under SpecNotifParse *)

\* C22: no input line stops the listener: once busctl is running and while
\* its output lasts, whatever lines came before (malformed, unexpected or
\* unreadable), the listener goes on to its next step, so that a Notify
\* call that follows is still read, captured and inserted.
C22_NoLineStopsListener ==
    listener_pc \notin {"spawn", "spawn_failed", "finished"} =>
        ENABLED (ListenerReadLine \/ ListenerLockInsert \/ ListenerTruncateUnlock)

\* A line that starts, after its leading blanks, with STRING and a quote.
BeginsStringQuote(line) ==
    \E k \in 1..Len(line) - 1 :
       /\ \A j \in 1..k - 1 : line[j] = Space
       /\ line[k] = StringKw
       /\ line[k + 1] = Q

\* The line the listener has just read, while the call's lines are
\* remembered.
LineJustRead == call_lines'[1][Len(call_lines'[1])]

\* The listener, capturing the fields of a call, reads a line that is not
\* a header line.
ReadsLineWhileCapturing ==
    /\ listener_pc = "read"
    /\ listener_pc' \in {"read", "lock"}
    /\ in_notify_call
    /\ call_lines # None
    /\ call_lines' # None
    /\ Len(call_lines'[1]) = Len(call_lines[1]) + 1

\* C23: while the fields of a call are captured, every line that starts
\* with STRING and a quote advances the field index by exactly one,
\* whatever its value, and only the values at indices 0, 2 and 3 are
\* retained.
C23_StringLineAdvancesIndex ==
    [][(ReadsLineWhileCapturing /\ BeginsStringQuote(LineJustRead)) =>
         /\ string_field_index' = string_field_index + 1
         /\ string_field_index \notin {AppNameIndex, SummaryIndex, BodyIndex}
               => UNCHANGED <<current_app_name, current_summary, current_body>>]_vars

\* The listener, capturing the fields of a call, reads a header line.
ReadsHeaderWhileCapturing ==
    /\ listener_pc = "read"
    /\ listener_pc' \in {"read", "lock"}
    /\ in_notify_call
    /\ call_lines' = Some(<<>>)

\* The listener reads the line that completes a notification.
ReadsLastField ==
    /\ listener_pc = "read"
    /\ listener_pc' = "lock"
    /\ call_lines' # None

\* The quoted STRING lines read since the last header line, after the step.
CallFieldsNext == SelectSeq(call_lines'[1], IsQuotedStringLine)

\* C24: while the fields of a call are captured, a line containing
\* Member=Notify discards every field captured so far, resets the field
\* index to 0 and restarts the capture; nothing is emitted for the call it
\* interrupts, and the notification emitted for the new call is made of
\* the fields read after that line alone.
C24_HeaderRestartsCapture ==
    [][/\ ReadsHeaderWhileCapturing =>
            /\ current_app_name' = <<>>
            /\ current_summary' = <<>>
            /\ current_body' = <<>>
            /\ string_field_index' = 0
            /\ in_notify_call'
            /\ notification' = None
            /\ listener_pc' = "read"
            /\ notifications' = notifications
       /\ ReadsLastField =>
            /\ Len(CallFieldsNext) = 4
            /\ notification'[1].app_name \in
                  {QuotedValue(CallFieldsNext[1]), SystemLabel}
            /\ notification'[1].summary = QuotedValue(CallFieldsNext[3])
            /\ notification'[1].body = QuotedValue(CallFieldsNext[4])]_vars

\* C24 witness: a header line has just cut short a call of which fields had
\* been captured, and the capture starts over with nothing kept.
C24_CallCutShort ==
    /\ interrupted
    /\ listener_pc = "read"
    /\ in_notify_call
    /\ string_field_index = 0
    /\ current_app_name = <<>>
    /\ current_summary = <<>>
    /\ call_lines = Some(<<>>)

----------------------------------------------------------------------------
(* The listener between two calls, checked under SpecNotif *)

\* The listener reads a line that is not a header line while no call is
\* being captured.
ReadsLineWhileIdle ==
    /\ ListenerReadCallLine
    /\ ~in_notify_call
    /\ call_lines' # Some(<<>>)

\* C25: once the field of index 3 is captured the listener is idle again:
\* until the next header line no STRING line changes a captured field, the
\* field index or the shared list, and no call makes more than one
\* notification, so that the notifications emitted never outnumber the
\* header lines seen.
C25_IdleAfterBody ==
    [][/\ ReadsLineWhileIdle =>
            /\ UNCHANGED <<current_app_name, current_summary, current_body,
                           string_field_index, in_notify_call, notifications>>
            /\ listener_pc' = "read"
       /\ string_field_index' > BodyIndex => ~in_notify_call'
       /\ call_emits' <= 1]_vars

\* C25 witness: more STRING lines than fit the history followed the header
\* line of a call that was captured and inserted, and the listener is idle
\* with the index where the body left it.
C25_StringLinesAfterBody ==
    /\ listener_pc = "read"
    /\ ~in_notify_call
    /\ string_field_index = BodyIndex + 1
    /\ call_lines = None
    /\ call_emits = 1
    /\ ~removed
    /\ Len(emit_log) = 1
    /\ max_notifications = 2
    /\ Len(notifications) = 1

\* C27: in every reachable state, under any interleaving of the listener's
\* insertions with clear, clear_app and remove_notification, the shared
\* list is ordered newest-first: the timestamps never increase from head
\* to tail. Checked under SpecNotifClock, of the list as a reader finds it.
C27_TimestampsNewestFirst ==
    notif_lock = "free" =>
        \A i, j \in 1..Len(notifications) :
           i < j => notifications[i].timestamp >= notifications[j].timestamp

\* The list the call just made found, and whether the call was to remove
\* the notification at its index i.
ListBefore == op_record[1].before

ToRemove(i) ==
    CASE notif_op = "clear" -> TRUE
      [] notif_op = "clear_app" -> ListBefore[i].app_name = op_record[1].app
      [] notif_op = "remove_notification" ->
            /\ ListBefore[i].app_name = op_record[1].app
            /\ ListBefore[i].timestamp = op_record[1].ts
      [] OTHER -> FALSE

\* The list is made of the elements of ListBefore at the indices of `kept`,
\* each once and in the same order.
IsOrderedRest(list, kept) ==
    \E f \in [1..Len(list) -> 1..Len(ListBefore)] :
       /\ \A k \in 1..Len(list) : list[k] = ListBefore[f[k]]
       /\ \A k, l \in 1..Len(list) : k < l => f[k] < f[l]
       /\ {f[k] : k \in 1..Len(list)} = kept

\* C26: remove_notification(app, ts) removes every notification whose
\* (app_name, timestamp) is (app, ts), several distinct ones that share the
\* pair included, clear_app(app) removes every notification of that
\* app_name, each leaves all other notifications present in the same
\* relative order, and clear() leaves the list empty.
C26_RemovalKeepsTheRest ==
    op_record # None =>
        /\ notif_op \in {"clear", "clear_app", "remove_notification"}
        /\ IsOrderedRest(notifications,
                         {i \in 1..Len(ListBefore) : ~ToRemove(i)})
        /\ notif_op = "clear" => notifications = <<>>

\* C26 witness: remove_notification found two different notifications with
\* the pair it was given and removed both.
C26_CollidingPairRemoved ==
    /\ op_record # None
    /\ notif_op = "remove_notification"
    /\ Len(ListBefore) = 2
    /\ ListBefore[1] # ListBefore[2]
    /\ ToRemove(1)
    /\ ToRemove(2)
    /\ notifications = <<>>

----------------------------------------------------------------------------
(* The mutexes and the external calls *)

\* Where each background thread is while an external call or a sleep is in
\* progress: the poller in its HTTP requests or its sleep, the GPU thread
\* in its sleep or its tool, the listener starting busctl or reading a line.
PollerOutside == poller_pc \in {"call", "sleep"}
GpuThreadOutside == gpu_pc = "sleep"
ListenerOutside == listener_pc \in {"spawn", "read"}

\* C21: no lock of the shared state (media_info, cider_token, the
\* notification list, gpu_usage) is held by a thread that is in an
\* external call or a sleep; a background thread that holds one has the
\* release as its next step, so that a reader waits for a copy or an
\* assignment only.
C21_NoLockAcrossExternalCall ==
    /\ PollerOutside => (media_lock # "poller" /\ token_lock # "poller")
    /\ GpuThreadOutside => gpu_lock # "gpu"
    /\ ListenerOutside => notif_lock # "listener"
    /\ media_lock = "poller" => ENABLED PollerUnlockMedia
    /\ token_lock = "poller" => ENABLED PollerUnlockToken
    /\ gpu_lock = "gpu" => ENABLED GpuUnlock
    /\ notif_lock = "listener" => ENABLED ListenerTruncateUnlock

\* Witness of C21: the poller holds media_info's lock for its assignment and
\* get_media_info has to wait.
C21_ReaderWaitsForStore ==
    /\ media_lock = "poller"
    /\ poller_pc = "stored"
    /\ ~ENABLED GetMediaInfoLock

----------------------------------------------------------------------------
(* The GPU vendor *)

\* The vendor the probes of gpu_env give when taken in the order NVIDIA
\* tool, AMD tools, Intel tool, driver bindings of the card nodes.
VendorByPriority ==
    CASE gpu_env.nvidia_smi -> "Nvidia"
      [] ~gpu_env.nvidia_smi /\ (gpu_env.radeontop \/ gpu_env.rocm_smi) -> "Amd"
      [] ~gpu_env.nvidia_smi /\ ~gpu_env.radeontop /\ ~gpu_env.rocm_smi
            /\ gpu_env.intel_gpu_top -> "Intel"
      [] ~gpu_env.nvidia_smi /\ ~gpu_env.radeontop /\ ~gpu_env.rocm_smi
            /\ ~gpu_env.intel_gpu_top /\ gpu_env.drm # None
            -> DriverScan(gpu_env.drm[1], 1)
      [] OTHER -> "None"

\* What the fetch function of a vendor can return.
FetchedBy(vendor) ==
    CASE vendor = "Nvidia" -> {FetchNvidiaGpuUsage(r) : r \in NvidiaReplies}
      [] vendor = "Amd" -> {FetchAmdGpuUsage(p) : p \in AmdProbes}
      [] vendor = "Intel" -> {FetchIntelGpuUsage(p) : p \in IntelProbes}
      [] OTHER -> {}

GpuFetchStep == gpu_pc = "sleep" /\ gpu_pc' = "store"

\* C31: detect_gpu_vendor returns the first hit of a fixed order: Nvidia
\* when the NVIDIA tool exists, whatever else exists, else Amd when an AMD
\* tool exists, else Intel when the Intel tool exists, else what the scan
\* of the card nodes' driver bindings finds, else None. The vendor never
\* changes afterwards, and every fetch of the GPU thread is one of that
\* vendor's fetch function; without a vendor there is no GPU thread.
C31_VendorByFixedPriority ==
    [][/\ gpu_vendor = VendorByPriority
       /\ gpu_vendor' = gpu_vendor
       /\ gpu_env' = gpu_env
       /\ GpuFetchStep => (/\ VendorByPriority # "None"
                           /\ gpu_fetched' \in FetchedBy(VendorByPriority))
       /\ VendorByPriority = "None" => gpu_pc' = "not_spawned"]_vars

\* Witness of C31: the NVIDIA tool, an AMD tool and the Intel tool all exist,
\* the vendor is Nvidia and the GPU thread has fetched a value.
C31_NvidiaAmongSeveral ==
    /\ gpu_env.nvidia_smi /\ gpu_env.radeontop /\ gpu_env.intel_gpu_top
    /\ gpu_vendor = "Nvidia"
    /\ gpu_pc = "store"
    /\ gpu_fetched # None

----------------------------------------------------------------------------
(* Temperatures without a sensor *)

\* C32: after any update in which no sensor label matches the CPU patterns,
\* cpu_temp is 0.0 whatever it was before, and likewise gpu_temp for the
\* GPU patterns: no reading is kept from an earlier update.
C32_NoMatchGivesZero ==
    [][/\ MatchingSensors(components', CpuPatterns) = {} => cpu_temp' = 0
       /\ MatchingSensors(components', GpuPatterns) = {} => gpu_temp' = 0]_vars

\* Witness of C32: an update has read sensors of which one matches the GPU
\* patterns and none the CPU patterns.
C32_OnlyGpuSensorRead ==
    /\ temp_updated
    /\ Len(components) > 0
    /\ MatchingSensors(components, CpuPatterns) = {}
    /\ MatchingSensors(components, GpuPatterns) # {}
    /\ cpu_temp = 0
    /\ gpu_temp # 0

----------------------------------------------------------------------------
(* The network counters of widget.rs *)

WidgetStatsStep == w_pending' = w_pending - 1

\* C33: in the UpdateSystemStats handler of widget.rs a summed counter lower
\* than the stored previous value gives neither an error nor a negative,
\* wrapped-around or huge rate: the handler does not panic, the rate of
\* that direction is 0 and the new value is the baseline.
C33_LowerCounterGivesZeroRate ==
    [][WidgetStatsStep =>
         /\ ~w_panicked'
         /\ w_network_rx_bytes' < w_network_rx_bytes
               => w_network_rx_rate' = ZeroRate
         /\ w_network_tx_bytes' < w_network_tx_bytes
               => w_network_tx_rate' = ZeroRate]_vars

----------------------------------------------------------------------------
(* The updates of the main thread *)

\* update_system_stats goes on to its updates.
PassStart == main_pc = "stats" /\ main_pc' = "utilization"

\* What the updates of update_system_stats write: the samples of the
\* utilization, temperature and network collector and the weather record.
utilWritten == <<cpu_usage, memory_usage, memory_total, memory_used, mem_divisor>>
netWritten == <<network_rx_bytes, network_tx_bytes, network_rx_rate, network_tx_rate,
                net_last_update, net_updates>>
weatherWritten == <<weather_data, weather_last_update, fetch_count>>

\* C34: update_system_stats runs its updates at most once per
\* update_interval_ms however often draw() is called: a pass starts only
\* when the interval has elapsed since the start of the pass before (kept
\* in last_update, which nothing else writes), and within a pass each
\* collector is updated at its own place, one after the other, on the one
\* main thread, so that no two updates of a collector overlap.
C34_UpdatesOncePerInterval ==
    [][/\ PassStart => /\ (now - main_last_update) * 1000
                             >= main_config.update_interval_ms
                       /\ main_last_update' = now
       /\ main_last_update' # main_last_update => PassStart
       /\ (main_pc' = "utilization" /\ main_pc # "utilization") => PassStart
       /\ utilWritten' # utilWritten
             => (main_pc = "utilization" /\ main_pc' = "temperature")
       /\ tempVars' # tempVars
             => (main_pc = "temperature" /\ main_pc' = "network")
       /\ netWritten' # netWritten
             => (main_pc = "network" /\ main_pc' = "weather")
       /\ weatherWritten' # weatherWritten
             => (main_pc \in {"weather", "fetching"} /\ main_pc' = "render")]_vars

\* Witness of C34: after a pass of updates draw() is called again before the
\* interval has elapsed, and update_system_stats is about to return early.
C34_DrawAgainWithinInterval ==
    /\ main_pc = "stats"
    /\ temp_updated
    /\ net_updates > 0
    /\ rendered # None
    /\ ENABLED MainStatsSkip

----------------------------------------------------------------------------
(* The records the shared MediaInfo can hold *)

\* C35: the shared MediaInfo is always either MediaInfo::default() or an
\* active record with player_name "Cider" and a title that is not empty:
\* no control operation leaves an inactive record other than the default.
C35_DefaultOrActiveRecord ==
    \/ media_info = MediaInfoDefault
    \/ /\ IsActive(media_info)
       /\ media_info.player_name = <<"Cider">>
       /\ media_info.title # <<>>

----------------------------------------------------------------------------
(* seek_to_progress and the poller *)

\* seek, called by seek_to_progress, was answered with success and writes
\* the position.
SeekToProgressApplied ==
    /\ ctl_pc = "seek_apply" /\ ctl_pc' = "idle"
    /\ seek_progress # None
    /\ ctl_ok

\* C36: after a successful seek_to_progress, however the poller's steps fall
\* between its steps, the position stored in the shared MediaInfo does not
\* exceed the duration stored with it: the duration that was read and the
\* position that is written belong to the same record.
C36_SeekPositionWithinDuration ==
    [][SeekToProgressApplied =>
         /\ media_info'.position <= media_info'.duration
         /\ media_info'.duration = seek_duration[1]]_vars

----------------------------------------------------------------------------
(* The weather settings *)

WeatherSetterStep == weather_op' \in {"set_api_key", "set_location"}

WeatherFetchStep == fetch_count' = fetch_count + 1

\* C37: set_api_key and set_location change the stored key or location and
\* nothing else: weather_data and last_update stay as they are. So once a
\* fetch has succeeded no fetch is made, for a changed location either,
\* before 600 seconds have passed since that fetch, and until a fetch
\* succeeds again the record stays the one of that fetch.
C37_SettersKeepRecordAndTime ==
    [][/\ WeatherSetterStep =>
             /\ weather_data' = weather_data
             /\ weather_last_update' = weather_last_update
             /\ api_key' # api_key \/ location' # location
       /\ (weather_data # None /\ WeatherFetchStep) =>
             now - weather_last_update >= MinRefetchSecs
       /\ weather_data' # weather_data => weather_op' = "fetch_ok"]_vars

\* Witness of C37: a fetch has succeeded, the location has been changed since,
\* and update() would return without fetching.
C37_ChangedLocationNotFetched ==
    /\ weather_op = "set_location"
    /\ weather_data # None
    /\ last_request # None
    /\ last_request[1][1] # TrimQuotes(location)
    /\ ~MissingCredentials
    /\ IntervalNotElapsed
    /\ ENABLED WeatherUpdateSkip
    /\ ~ENABLED WeatherUpdateFetch

----------------------------------------------------------------------------
(* The stored API token *)

\* None or a string that is not empty.
NoneOrNonEmpty(token) == token = None \/ token[1] # <<>>

\* C38: the stored media API token is always None or a non-empty string,
\* for the token given to MediaMonitor::new and after every
\* set_cider_token; hence the token the poller clones for its request is
\* never the empty string and no empty apptoken header is sent.
C38_TokenNoneOrNonEmpty ==
    /\ NoneOrNonEmpty(cider_token)
    /\ poll_token # None => NoneOrNonEmpty(poll_token[1])


-----------------------------------------------------------------------------
(* One lock at a time *)

\* The locks each thread holds. The main thread is the caller of the
\* monitors' operations: "reader" in a get_ call, "caller" in a seek.
LockHolders == <<media_lock, token_lock, notif_lock, gpu_lock>>
LocksHeldBy(names) == { i \in 1..4 : LockHolders[i] \in names }
Threads == { {"poller"}, {"listener"}, {"gpu"}, {"reader", "caller"} }

\* A thread whose next step is to acquire a lock.
PollerAcquires == poller_pc \in {"request", "store"}
CallerAcquires == ctl_pc \in {"seek_token", "seek_write"}
ListenerAcquires == listener_pc = "lock"
GpuThreadAcquires == gpu_pc = "store"

\* C39: no thread acquires one lock of the shared state while it holds
\* another: every thread holds at most one lock, a thread about to acquire
\* a lock holds none (the poller has released the token before it locks
\* media_info, seek_to_progress has released media_info before seek locks
\* the token and media_info), and whoever holds a lock can take the step
\* that releases it, so that no thread waits for ever.
C39_OneLockAtATime ==
    /\ \A names \in Threads : Cardinality(LocksHeldBy(names)) <= 1
    /\ PollerAcquires => LocksHeldBy({"poller"}) = {}
    /\ CallerAcquires => LocksHeldBy({"reader", "caller"}) = {}
    /\ ListenerAcquires => LocksHeldBy({"listener"}) = {}
    /\ GpuThreadAcquires => LocksHeldBy({"gpu"}) = {}
    /\ media_lock = "poller" => ENABLED PollerUnlockMedia
    /\ media_lock = "reader" => ENABLED GetMediaInfoUnlock
    /\ media_lock = "caller" => (ENABLED SeekToProgressDrop \/ ENABLED SeekUnlockMedia)
    /\ token_lock = "poller" => ENABLED PollerUnlockToken
    /\ token_lock = "caller" => ENABLED SeekUnlockToken
    /\ notif_lock = "listener" => ENABLED ListenerTruncateUnlock
    /\ gpu_lock = "gpu" => ENABLED GpuUnlock
    /\ gpu_lock = "reader" => ENABLED GetGpuUsageUnlock

\* Witness of C39: seek, called by seek_to_progress, holds the token lock
\* after media_info was released, while the poller holds media_info for
\* its store.
C39_SeekHoldsTokenOnly ==
    /\ ctl_pc = "seek_token_cloned"
    /\ seek_progress # None
    /\ token_lock = "caller"
    /\ media_lock = "poller"

====
